---- MODULE Spec2Model ----
(***************************************************************************)
(* A model of the local RAG assistant: the ingestion pipeline              *)
(* (framework/ingest), the hybrid retriever (framework/rag/retriever.py)   *)
(* and the collaborators they call (vector store, BM25 library, reranker). *)
(*                                                                         *)
(* Text is a sequence of one-character strings.  Python's None is the      *)
(* value None below.  A call that can raise returns an outcome record      *)
(* [raised, error, value].                                                 *)
(***************************************************************************)
EXTENDS Integers, Sequences, FiniteSets, TLC

VARIABLES
    kb,          \* knowledge_base_dir: relative path of each file present -> its text
    chunksNode,  \* what paths['chunks_file'] is on disk: "absent", "dir" or "file"
    chunksAt,    \* the lines of the file at paths['chunks_file'] (when it is a file)
    chunksIn,    \* <chunks_file>/chunks.jsonl: [exists, lines]
    chromaFiles, \* TRUE when os.listdir(vector_store_dir) is non-empty
    chromaDocs,  \* the documents of the persisted Chroma collection, in insertion order
    cfgPaths,    \* the paths mapping of the configuration
    retriever,   \* the retriever object the caller holds (kind "none": not built)
    ingests,     \* number of run_ingest calls made so far
    ui,          \* ChatWindow: the conversation, its history flags and its widgets
    history,     \* the sessions stored in the file at history_path, first one first
    workers,     \* the worker threads started by on_send and on_reindex
    signals,     \* the signals emitted by workers and not yet delivered
    last         \* the outcome of the most recent call

vars == <<kb, chunksNode, chunksAt, chunksIn, chromaFiles, chromaDocs,
          cfgPaths, retriever, ingests, ui, history, workers, signals, last>>

\* the chat window and its threads
gui == <<ui, history, workers, signals>>

----------------------------------------------------------------------------
(* Bounds of the model *)

\* largest top_k / top_k_vector / top_k_bm25 / top_k_final passed to get_retriever
MaxTopK == 2
\* collaborator scores (reranker, BM25) range over integers up to MaxScore
MaxScore == 1
\* run_ingest calls per behaviour
MaxIngests == 2

----------------------------------------------------------------------------
(* Python values *)

None == "None"

\* {}: the dict with no key
EmptyDict == [k \in {} |-> None]

Ok(v) == [raised |-> FALSE, error |-> None, value |-> v]
Raise(e) == [raised |-> TRUE, error |-> e, value |-> <<>>]

Min(a, b) == IF a <= b THEN a ELSE b

\* s[:n]
Take(s, n) == SubSeq(s, 1, Min(Len(s), n))

\* d.get(k): the value under k, None when the key is missing
DictGet(d, k) == IF k \in DOMAIN d THEN d[k] ELSE None

\* d.get(k, default)
DictGetOr(d, k, default) == IF k \in DOMAIN d THEN d[k] ELSE default

Document(text, meta) == [page_content |-> text, metadata |-> meta]

Range(s) == {s[i] : i \in DOMAIN s}

\* ChatWindow.__init__: an empty conversation that comes from no stored
\* session (loaded_session_index is <<>> for None, <<idx>> otherwise); the
\* history list and the chat view are filled by _setup_ui
NewWindow ==
    [current_session |-> <<>>, loaded_from_history |-> FALSE,
     session_dirty |-> FALSE, loaded_session_index |-> <<>>,
     history_list |-> <<>>, chat_view |-> <<>>, stage |-> "open"]

\* the calls made without a chat window
NoWindow ==
    /\ ui = NewWindow
    /\ history = <<>>
    /\ workers = <<>>
    /\ signals = <<>>

----------------------------------------------------------------------------
(* Characters *)

Capitals ==
    <<"A", "B", "C", "D", "E", "F", "G", "H", "I", "J", "K", "L", "M",
      "N", "O", "P", "Q", "R", "S", "T", "U", "V", "W", "X", "Y", "Z">>

Letters ==
    <<"a", "b", "c", "d", "e", "f", "g", "h", "i", "j", "k", "l", "m",
      "n", "o", "p", "q", "r", "s", "t", "u", "v", "w", "x", "y", "z">>

UpperToLower ==
    [c \in Range(Capitals) |->
        Letters[CHOOSE i \in DOMAIN Capitals : Capitals[i] = c]]

\* str.lower() on one character
LowerChar(c) == IF c \in DOMAIN UpperToLower THEN UpperToLower[c] ELSE c

\* text.lower()
Lower(text) == [i \in DOMAIN text |-> LowerChar(text[i])]

\* the characters the class [A-Za-z0-9] matches
AsciiAlnum ==
    Range(Letters) \cup Range(Capitals) \cup
    {"0", "1", "2", "3", "4", "5", "6", "7", "8", "9"}

\* the places where a maximal run of [A-Za-z0-9] starts
RunStarts(text) ==
    {i \in DOMAIN text :
        text[i] \in AsciiAlnum /\ (i = 1 \/ text[i - 1] \notin AsciiAlnum)}

\* the last place of the run that starts at i
RunEnd(text, i) ==
    CHOOSE j \in i..Len(text) :
        /\ \A k \in i..j : text[k] \in AsciiAlnum
        /\ j = Len(text) \/ text[j + 1] \notin AsciiAlnum

RECURSIVE RunsFrom(_, _)
RunsFrom(text, starts) ==
    IF starts = {} THEN <<>>
    ELSE LET i == CHOOSE x \in starts : \A y \in starts : x <= y
         IN  <<SubSeq(text, i, RunEnd(text, i))>> \o RunsFrom(text, starts \ {i})

\* re.findall(r"[A-Za-z0-9]+", text): the maximal runs, left to right
FindAllAlnum(text) == RunsFrom(text, RunStarts(text))

_tokenize(text) == FindAllAlnum(Lower(text))

----------------------------------------------------------------------------
(* retriever.py: chunk records, deduplication *)

\* the number of leading characters of the content that enter the dedupe key
KeyPrefixLen == 120

\* A line of the chunk record file is a JSON row (a dict), or blank.
BlankLine == [blank |-> TRUE]
IsBlankLine(line) == "blank" \in DOMAIN line

RECURSIVE LoadRows(_, _)
LoadRows(lines, i) ==
    IF i > Len(lines) THEN <<>>
    ELSE IF IsBlankLine(lines[i])
         THEN LoadRows(lines, i + 1)
         ELSE <<Document(DictGetOr(lines[i], "text", <<>>),
                         DictGetOr(lines[i], "metadata", EmptyDict))>>
              \o LoadRows(lines, i + 1)

_load_chunks(lines) == LoadRows(lines, 1)

DedupeKey(doc) ==
    <<DictGet(doc.metadata, "source"), DictGet(doc.metadata, "page"),
      Take(doc.page_content, KeyPrefixLen)>>

RECURSIVE DedupeFrom(_, _, _, _)
DedupeFrom(docs, i, seen, unique) ==
    IF i > Len(docs) THEN unique
    ELSE IF DedupeKey(docs[i]) \in seen
         THEN DedupeFrom(docs, i + 1, seen, unique)
         ELSE DedupeFrom(docs, i + 1, seen \cup {DedupeKey(docs[i])},
                         Append(unique, docs[i]))

\* a variant that keeps, for each key, the document seen last
DedupeKeepingLast(docs) ==
    LET kept == SelectSeq([i \in DOMAIN docs |-> i],
                          LAMBDA i : \A j \in (i + 1)..Len(docs) :
                                        DedupeKey(docs[j]) # DedupeKey(docs[i]))
    IN  [n \in DOMAIN kept |-> docs[kept[n]]]

_dedupe_docs(docs) == DedupeFrom(docs, 1, {}, <<>>)

----------------------------------------------------------------------------
(* sorted(..., key=..., reverse=True): descending and stable *)

RECURSIVE SortedDescTiesReversed(_, _, _)
\* a descending sort that puts i after the later indices of equal key
SortedDescTiesReversed(n, i, key) ==
    IF i > n THEN <<>>
    ELSE LET rest == SortedDescTiesReversed(n, i + 1, key)
         IN  IF rest = <<>> THEN <<i>>
             ELSE LET before == SelectSeq(rest, LAMBDA j : key[j] >= key[i])
                      after  == SelectSeq(rest, LAMBDA j : key[j] < key[i])
                  IN  before \o <<i>> \o after

RECURSIVE SortedDescFrom(_, _, _)
SortedDescFrom(n, i, key) ==
    IF i > n THEN <<>>
    ELSE LET rest == SortedDescFrom(n, i + 1, key)
         IN  \* i precedes the later indices of equal key
             IF rest = <<>> THEN <<i>>
             ELSE LET before == SelectSeq(rest, LAMBDA j : key[j] > key[i])
                      after  == SelectSeq(rest, LAMBDA j : key[j] <= key[i])
                  IN  before \o <<i>> \o after

\* sorted(range(n), key=lambda i: key[i], reverse=True)
SortedDesc(n, key) == SortedDescFrom(n, 1, key)

----------------------------------------------------------------------------
(* Collaborators: rank_bm25.BM25Okapi, Chroma, CrossEncoder *)

\* BM25Okapi(tokenized): avgdl = num_doc / corpus_size divides by zero for an
\* empty corpus, and average_idf = idf_sum / len(idf) for a corpus without
\* any token.
BM25Okapi(tokenized) ==
    IF Len(tokenized) = 0 \/ \A i \in DOMAIN tokenized : tokenized[i] = <<>>
    THEN Raise("ZeroDivisionError")
    ELSE Ok(tokenized)

\* bm25.get_scores(tokens): one score per corpus document.  A document that
\* holds none of the query's tokens scores 0 (every term frequency is 0);
\* the other scores are the library's (an idf may be negative or zero), and
\* equal token lists score equally.
BM25GetScores(tokenized, tokens) ==
    {s \in [DOMAIN tokenized -> (0 - 1)..MaxScore] :
        /\ \A i \in DOMAIN tokenized :
              Range(tokenized[i]) \cap Range(tokens) = {} => s[i] = 0
        /\ \A i, j \in DOMAIN tokenized :
              tokenized[i] = tokenized[j] => s[i] = s[j]}

\* the sequences of m distinct indices of 1..n
Injections(n, m) ==
    {s \in [1..m -> 1..n] : \A i, j \in 1..m : s[i] = s[j] => i = j}

\* db.similarity_search(query, k): the k nearest documents of the collection
\* (all of them when it holds fewer), in the store's order of similarity, or
\* the store's error.
SimilaritySearch(docs, k) ==
    {Raise("VectorStoreError")} \cup
    {Ok([i \in 1..Min(k, Len(docs)) |-> docs[s[i]]]) :
        s \in Injections(Len(docs), Min(k, Len(docs)))}

\* reranker.predict(pairs): one score per pair, each pair scored on its own
\* (equal contents score equally), or the model's error.
RerankerPredict(contents) ==
    {Raise("RerankerError")} \cup
    {Ok(s) : s \in {f \in [DOMAIN contents -> 0..MaxScore] :
                      \A i, j \in DOMAIN contents :
                          contents[i] = contents[j] => f[i] = f[j]}}

----------------------------------------------------------------------------
(* retriever.py: HybridRetriever *)

NoRetriever ==
    [kind |-> "none", k |-> 0, top_k_vector |-> 0, top_k_bm25 |-> 0,
     top_k_final |-> 0, bm25_docs |-> <<>>, bm25 |-> <<>>, reranker |-> FALSE]

\* HybridRetriever.__init__ over the lines of chunks_file
HybridRetriever(lines, top_k_vector, top_k_bm25, top_k_final, rerank_model) ==
    LET bm25_docs == _load_chunks(lines)
        tokenized == [i \in DOMAIN bm25_docs |-> _tokenize(bm25_docs[i].page_content)]
        bm25 == BM25Okapi(tokenized)
    IN  IF bm25.raised THEN Raise(bm25.error)
        ELSE Ok([kind |-> "hybrid", k |-> 0, top_k_vector |-> top_k_vector,
                 top_k_bm25 |-> top_k_bm25, top_k_final |-> top_k_final,
                 bm25_docs |-> bm25_docs, bm25 |-> bm25.value,
                 reranker |-> rerank_model # ""])

\* a variant built without search_kwargs: the store's default k
DefaultKRetriever(k) == [NoRetriever EXCEPT !.kind = "vector", !.k = 4]

\* db.as_retriever(search_kwargs={"k": k})
VectorStoreRetriever(k) == [NoRetriever EXCEPT !.kind = "vector", !.k = k]

\* a variant without the early return for a query that has no token:
\* get_scores([]) is 0 everywhere
_bm25_search_unguarded(r, query, scores) ==
    LET given == IF _tokenize(query) = <<>>
                 THEN [i \in DOMAIN r.bm25_docs |-> 0] ELSE scores
        ranked == SortedDesc(Len(given), given)
        top == Take(ranked, r.top_k_bm25)
    IN  [i \in DOMAIN top |-> r.bm25_docs[top[i]]]

\* scores: what bm25.get_scores(tokens) returns to this call.  The documents
\* at the first top_k_bm25 places of the ranking by score.
_bm25_search(r, query, scores) ==
    LET tokens == _tokenize(query)
    IN  IF tokens = <<>> THEN <<>>
        ELSE LET ranked == SortedDesc(Len(scores), scores)
                 top == Take(ranked, r.top_k_bm25)
             IN  [i \in DOMAIN top |-> r.bm25_docs[top[i]]]

\* a variant that sorts without reverse=True
_rerank_ascending(r, query, docs, predicted) ==
    IF ~r.reranker \/ docs = <<>> THEN Ok(docs)
    ELSE IF predicted.raised THEN predicted
    ELSE LET ranked == SortedDesc(Len(docs), [i \in DOMAIN docs |-> 0 - predicted.value[i]])
         IN  Ok([i \in DOMAIN ranked |-> docs[ranked[i]]])

\* predicted: the outcome of reranker.predict(pairs)
_rerank(r, query, docs, predicted) ==
    IF ~r.reranker \/ docs = <<>> THEN Ok(docs)
    ELSE IF predicted.raised THEN predicted
    ELSE LET ranked == SortedDesc(Len(docs), predicted.value)
         IN  Ok([i \in DOMAIN ranked |-> docs[ranked[i]]])

\* vec_docs + bm25_docs, deduplicated
Merged(r, query, vec_docs, scores) ==
    _dedupe_docs(vec_docs \o _bm25_search(r, query, scores))

\* The call's outcome and what it did on the way: the collaborators it called,
\* in order, the error a collaborator raised (None: none did), the
\* intermediate lists and the scores the reranker gave.
Trace(outcome, query, calls, failed, vec_docs, bm25_docs, merged, scores) ==
    [raised |-> outcome.raised, error |-> outcome.error, value |-> outcome.value,
     query |-> query, calls |-> calls, failed |-> failed, vec_docs |-> vec_docs,
     bm25_docs |-> bm25_docs, merged |-> merged, scores |-> scores]

\* the collaborators a call that got its vector hits goes on to call
CallsAfterSearch(r, query, merged) ==
    <<"similarity_search">>
        \o (IF _tokenize(query) # <<>> THEN <<"get_scores">> ELSE <<>>)
        \o (IF r.reranker /\ merged # <<>> THEN <<"predict">> ELSE <<>>)

\* a variant that merges the lexical hits ahead of the vector hits
LexicalFirstDocuments(r, query, searched, scores, predicted) ==
    IF searched.raised
    THEN Trace(searched, query, <<"similarity_search">>, searched.error,
               <<>>, <<>>, <<>>, <<>>)
    ELSE LET vec_docs == searched.value
             bm25_docs == _bm25_search(r, query, scores)
             merged == _dedupe_docs(bm25_docs \o vec_docs)
             reranked == _rerank(r, query, merged, predicted)
             calls == CallsAfterSearch(r, query, merged)
             called == r.reranker /\ merged # <<>>
         IN  IF reranked.raised
             THEN Trace(reranked, query, calls, reranked.error, vec_docs,
                        bm25_docs, merged, <<>>)
             ELSE Trace(Ok(Take(reranked.value, r.top_k_final)), query, calls,
                        None, vec_docs, bm25_docs, merged,
                        IF called THEN predicted.value ELSE <<>>)

\* a variant that returns the reranked list whole
UntruncatedDocuments(r, query, searched, scores, predicted) ==
    IF searched.raised
    THEN Trace(searched, query, <<"similarity_search">>, searched.error,
               <<>>, <<>>, <<>>, <<>>)
    ELSE LET vec_docs == searched.value
             bm25_docs == _bm25_search(r, query, scores)
             merged == _dedupe_docs(vec_docs \o bm25_docs)
             reranked == _rerank(r, query, merged, predicted)
             calls == CallsAfterSearch(r, query, merged)
             called == r.reranker /\ merged # <<>>
         IN  IF reranked.raised
             THEN Trace(reranked, query, calls, reranked.error, vec_docs,
                        bm25_docs, merged, <<>>)
             ELSE Trace(Ok(reranked.value), query, calls,
                        None, vec_docs, bm25_docs, merged,
                        IF called THEN predicted.value ELSE <<>>)

\* a variant that answers from the lexical hits when the vector store fails,
\* and keeps the merge order when the reranker fails
FallbackDocuments(r, query, searched, scores, predicted) ==
    LET vec_docs == IF searched.raised THEN <<>> ELSE searched.value
        bm25_docs == _bm25_search(r, query, scores)
        merged == _dedupe_docs(vec_docs \o bm25_docs)
        reranked == _rerank(r, query, merged, predicted)
        calls == CallsAfterSearch(r, query, merged)
        called == r.reranker /\ merged # <<>>
        failed == IF searched.raised THEN searched.error
                  ELSE IF reranked.raised THEN reranked.error ELSE None
    IN  Trace(Ok(Take(IF reranked.raised THEN merged ELSE reranked.value,
                      r.top_k_final)),
              query, calls, failed, vec_docs, bm25_docs, merged,
              IF called /\ ~predicted.raised THEN predicted.value ELSE <<>>)

\* searched: the outcome of db.similarity_search; scores: what
\* bm25.get_scores returns; predicted: the outcome of reranker.predict.
\* An error a collaborator raises is the call's error.
get_relevant_documents(r, query, searched, scores, predicted) ==
    IF searched.raised
    THEN Trace(searched, query, <<"similarity_search">>, searched.error,
               <<>>, <<>>, <<>>, <<>>)
    ELSE LET vec_docs == searched.value
             bm25_docs == _bm25_search(r, query, scores)
             merged == _dedupe_docs(vec_docs \o bm25_docs)
             reranked == _rerank(r, query, merged, predicted)
             calls == CallsAfterSearch(r, query, merged)
             called == r.reranker /\ merged # <<>>
         IN  IF reranked.raised
             THEN Trace(reranked, query, calls, reranked.error, vec_docs,
                        bm25_docs, merged, <<>>)
             ELSE Trace(Ok(Take(reranked.value, r.top_k_final)), query, calls,
                        None, vec_docs, bm25_docs, merged,
                        IF called THEN predicted.value ELSE <<>>)

\* HybridRetriever.invoke
invoke(r, query, searched, scores, predicted) ==
    get_relevant_documents(r, query, searched, scores, predicted)

\* VectorStoreRetriever.get_relevant_documents: the store's answer
VectorOnlyDocuments(r, query, searched) ==
    Trace(searched, query, <<"similarity_search">>,
          IF searched.raised THEN searched.error ELSE None,
          searched.value, <<>>, <<>>, <<>>)

----------------------------------------------------------------------------
(* splitters.py: the section pattern *)

\* the characters \s matches and str.strip() removes
Whitespace == {" ", "\n", "\t"}

RECURSIVE LStrip(_)
LStrip(s) == IF s # <<>> /\ Head(s) \in Whitespace THEN LStrip(Tail(s)) ELSE s

RECURSIVE RStrip(_)
RStrip(s) ==
    IF s # <<>> /\ s[Len(s)] \in Whitespace
    THEN RStrip(SubSeq(s, 1, Len(s) - 1)) ELSE s

\* s.strip()
Strip(s) == RStrip(LStrip(s))

\* the strings the alternation of SECTION_PATTERN matches, in lower case
HeadingWords ==
    {<<"a", "b", "s", "t", "r", "a", "c", "t">>,
     <<"i", "n", "t", "r", "o", "d", "u", "c", "t", "i", "o", "n">>,
     <<"r", "e", "l", "a", "t", "e", "d", " ", "w", "o", "r", "k">>,
     <<"b", "a", "c", "k", "g", "r", "o", "u", "n", "d">>,
     <<"m", "e", "t", "h", "o", "d">>,
     <<"m", "e", "t", "h", "o", "d", "s">>,
     <<"m", "e", "t", "h", "o", "d", "o", "l", "o", "g", "y">>,
     <<"e", "x", "p", "e", "r", "i", "m", "e", "n", "t">>,
     <<"e", "x", "p", "e", "r", "i", "m", "e", "n", "t", "s">>,
     <<"r", "e", "s", "u", "l", "t">>,
     <<"r", "e", "s", "u", "l", "t", "s">>,
     <<"d", "i", "s", "c", "u", "s", "s", "i", "o", "n">>,
     <<"c", "o", "n", "c", "l", "u", "s", "i", "o", "n">>,
     <<"l", "i", "m", "i", "t", "a", "t", "i", "o", "n">>,
     <<"l", "i", "m", "i", "t", "a", "t", "i", "o", "n", "s">>,
     <<"f", "u", "t", "u", "r", "e", " ", "w", "o", "r", "k">>,
     <<"a", "c", "k", "n", "o", "w", "l", "e", "d", "g", "m", "e", "n", "t", "s">>,
     <<"a", "c", "k", "n", "o", "w", "l", "e", "d", "g", "e", "m", "e", "n", "t", "s">>,
     <<"r", "e", "f", "e", "r", "e", "n", "c", "e", "s">>,
     <<"b", "i", "b", "l", "i", "o", "g", "r", "a", "p", "h", "y">>}

\* ^ under re.MULTILINE
IsLineStart(text, p) == p = 1 \/ text[p - 1] = "\n"

\* $ under re.MULTILINE: the end of the text, or just before a newline
IsLineEnd(text, e) == e = Len(text) + 1 \/ text[e] = "\n"

RECURSIVE SkipWhitespace(_, _)
\* where a greedy \s* starting at p stops
SkipWhitespace(text, p) ==
    IF p <= Len(text) /\ text[p] \in Whitespace
    THEN SkipWhitespace(text, p + 1) ELSE p

\* the word w at q, compared under re.IGNORECASE
WordAt(text, q, w) ==
    /\ q + Len(w) - 1 <= Len(text)
    /\ Lower(SubSeq(text, q, q + Len(w) - 1)) = w

\* where \s*$ ends after a word that ends before e0: the greedy \s* backs off
\* to the last place that is a line end; 0 when there is none
TrailingEnd(text, e0) ==
    LET ends == {e \in e0..SkipWhitespace(text, e0) : IsLineEnd(text, e)}
    IN  IF ends = {} THEN 0 ELSE CHOOSE e \in ends : \A f \in ends : f <= e

NoMatch == [found |-> FALSE, start |-> 0, end |-> 0, title |-> <<>>]

\* SECTION_PATTERN.match at position p
SECTION_PATTERN(text, p) ==
    LET q == SkipWhitespace(text, p)
        ws == {w \in HeadingWords :
                 WordAt(text, q, w) /\ TrailingEnd(text, q + Len(w)) # 0}
    IN  IF ~IsLineStart(text, p) \/ ws = {} THEN NoMatch
        ELSE LET w == CHOOSE v \in ws : TRUE
             IN  [found |-> TRUE, start |-> p,
                  end |-> TrailingEnd(text, q + Len(w)),
                  title |-> SubSeq(text, q, q + Len(w) - 1)]

RECURSIVE FindIter(_, _)
\* SECTION_PATTERN.finditer(text) from position pos
FindIter(text, pos) ==
    IF pos > Len(text) + 1 THEN <<>>
    ELSE LET m == SECTION_PATTERN(text, pos)
         IN  IF m.found THEN <<m>> \o FindIter(text, m.end)
             ELSE FindIter(text, pos + 1)

Body == <<"b", "o", "d", "y">>

\* sections that all run to the end of the text
OverlappingSections(text) ==
    LET matches == FindIter(text, 1)
    IN  IF matches = <<>> THEN <<[section |-> Body, text |-> text]>>
        ELSE [i \in DOMAIN matches |->
                [section |-> matches[i].title,
                 text |-> Strip(SubSeq(text, matches[i].start, Len(text)))]]

\* the sections, with a trimmed text for the one labeled "body"
TrimmedBodySections(text) ==
    LET matches == FindIter(text, 1)
    IN  IF matches = <<>> THEN <<[section |-> Body, text |-> Strip(text)]>>
        ELSE [i \in DOMAIN matches |->
                LET start == matches[i].start
                    end == IF i + 1 <= Len(matches)
                           THEN matches[i + 1].start - 1 ELSE Len(text)
                IN  [section |-> matches[i].title,
                     text |-> Strip(SubSeq(text, start, end))]]

_split_paper_sections(text) ==
    LET matches == FindIter(text, 1)
    IN  IF matches = <<>> THEN <<[section |-> Body, text |-> text]>>
        ELSE [i \in DOMAIN matches |->
                LET start == matches[i].start
                    end == IF i + 1 <= Len(matches)
                           THEN matches[i + 1].start - 1 ELSE Len(text)
                IN  [section |-> matches[i].title,
                     text |-> Strip(SubSeq(text, start, end))]]

----------------------------------------------------------------------------
(* splitters.py: RecursiveCharacterTextSplitter(chunk_size, chunk_overlap) *)

\* the splitter's default separators: "\n\n", "\n", " ", ""
Separators == << <<"\n", "\n">>, <<"\n">>, <<" ">>, <<>> >>

StartsAt(text, sep, i) ==
    /\ i + Len(sep) - 1 <= Len(text)
    /\ SubSeq(text, i, i + Len(sep) - 1) = sep

\* re.search(re.escape(sep), text)
Contains(text, sep) == \E i \in 1..Len(text) : StartsAt(text, sep, i)

RECURSIVE Flatten(_)
\* "".join(pieces)
Flatten(pieces) ==
    IF pieces = <<>> THEN <<>> ELSE Head(pieces) \o Flatten(Tail(pieces))

RECURSIVE SplitKeep(_, _, _, _)
\* re.split("(sep)", text), each separator joined to the piece that follows it
SplitKeep(text, sep, i, cur) ==
    IF i > Len(text) THEN <<cur>>
    ELSE IF StartsAt(text, sep, i)
         THEN <<cur>> \o SplitKeep(text, sep, i + Len(sep), sep)
         ELSE SplitKeep(text, sep, i + 1, Append(cur, text[i]))

\* _split_text_with_regex(text, sep, keep_separator=True); list(text) for ""
SplitWithRegex(text, sep) ==
    LET splits == IF sep # <<>> THEN SplitKeep(text, sep, 1, <<>>)
                  ELSE [i \in DOMAIN text |-> <<text[i]>>]
    IN  SelectSeq(splits, LAMBDA x : x # <<>>)

\* _join_docs(docs, ""): the stripped concatenation, dropped when empty
JoinDocs(pieces) ==
    LET text == Strip(Flatten(pieces))
    IN  IF text = <<>> THEN <<>> ELSE <<text>>

\* a loop that drops nothing
PopNothing(current_doc, total, len, size, overlap) ==
    [current_doc |-> current_doc, total |-> total]

RECURSIVE PopWhile(_, _, _, _, _)
\* the while loop of _merge_splits: drop leading pieces of current_doc
PopWhile(current_doc, total, len, size, overlap) ==
    IF total > overlap \/ (total + len > size /\ total > 0)
    THEN PopWhile(Tail(current_doc), total - Len(Head(current_doc)),
                  len, size, overlap)
    ELSE [current_doc |-> current_doc, total |-> total]

RECURSIVE MergeFrom(_, _, _, _, _, _, _)
MergeFrom(splits, i, docs, current_doc, total, size, overlap) ==
    IF i > Len(splits) THEN docs \o JoinDocs(current_doc)
    ELSE LET d == splits[i]
         IN  IF total + Len(d) > size /\ Len(current_doc) > 0
             THEN LET kept == PopWhile(current_doc, total, Len(d), size, overlap)
                  IN  MergeFrom(splits, i + 1, docs \o JoinDocs(current_doc),
                                Append(kept.current_doc, d),
                                kept.total + Len(d), size, overlap)
             ELSE MergeFrom(splits, i + 1, docs, Append(current_doc, d),
                            total + Len(d), size, overlap)

\* _merge_splits(splits, "")
MergeSplits(splits, size, overlap) ==
    MergeFrom(splits, 1, <<>>, <<>>, 0, size, overlap)

\* the index of the separator _split_text picks: the first that is "" or
\* occurs in the text; the last when none does
PickSeparator(text, separators) ==
    LET hits == {i \in DOMAIN separators :
                    separators[i] = <<>> \/ Contains(text, separators[i])}
    IN  IF hits = {} THEN Len(separators)
        ELSE CHOOSE i \in hits : \A j \in hits : i <= j

RECURSIVE SplitText(_, _, _, _)
RECURSIVE SplitLoop(_, _, _, _, _, _, _)

\* the loop of _split_text over the pieces
SplitLoop(splits, i, good, final, new_separators, size, overlap) ==
    LET flushed == IF good # <<>>
                   THEN final \o MergeSplits(good, size, overlap) ELSE final
    IN  IF i > Len(splits) THEN flushed
        ELSE IF Len(splits[i]) < size
             THEN SplitLoop(splits, i + 1, Append(good, splits[i]), final,
                            new_separators, size, overlap)
             ELSE IF new_separators = <<>>
                  THEN SplitLoop(splits, i + 1, <<>>, Append(flushed, splits[i]),
                                 new_separators, size, overlap)
                  ELSE SplitLoop(splits, i + 1, <<>>,
                                 flushed \o SplitText(splits[i], new_separators,
                                                      size, overlap),
                                 new_separators, size, overlap)

\* RecursiveCharacterTextSplitter._split_text(text, separators)
SplitText(text, separators, size, overlap) ==
    LET k == PickSeparator(text, separators)
        separator == separators[k]
        new_separators ==
            IF separator # <<>> /\ Contains(text, separator)
            THEN SubSeq(separators, k + 1, Len(separators)) ELSE <<>>
    IN  SplitLoop(SplitWithRegex(text, separator), 1, <<>>, <<>>,
                  new_separators, size, overlap)

\* TextSplitter.create_documents: every chunk carries a copy of the metadata
CreateDocuments(chunks, metadata) ==
    [j \in DOMAIN chunks |-> Document(chunks[j], metadata)]

RECURSIVE SplitEach(_, _, _, _)
\* TextSplitter.split_documents
SplitEach(docs, i, size, overlap) ==
    IF i > Len(docs) THEN <<>>
    ELSE CreateDocuments(SplitText(docs[i].page_content, Separators, size, overlap),
                         docs[i].metadata)
         \o SplitEach(docs, i + 1, size, overlap)

\* The constructor rejects chunk_size <= 0, chunk_overlap < 0 and
\* chunk_overlap > chunk_size with a ValueError.
_split_with_params(docs, size, overlap) ==
    IF size <= 0 \/ overlap < 0 \/ overlap > size THEN Raise("ValueError")
    ELSE Ok(SplitEach(docs, 1, size, overlap))

\* metadata with metadata["section"] = section
WithKey(metadata, key, value) ==
    [k \in DOMAIN metadata \cup {key} |-> IF k = key THEN value ELSE metadata[k]]

\* the derived documents without the stamp
UnstampedSectionDocs(sections, metadata) ==
    LET kept == SelectSeq(sections, LAMBDA x : x.text # <<>>)
    IN  [j \in DOMAIN kept |-> Document(kept[j].text, metadata)]

\* the documents derived from the sections of one document: a section
\* without text is skipped
SectionDocs(sections, metadata) ==
    LET kept == SelectSeq(sections, LAMBDA x : x.text # <<>>)
    IN  [j \in DOMAIN kept |->
            Document(kept[j].text, WithKey(metadata, "section", kept[j].section))]

\* doc.metadata once the sections of doc are stamped: the stamp goes to
\* the copy dict(doc.metadata), the document's own dict is not written
ParentMetadata(sections, metadata) == metadata

RECURSIVE DerivedFrom(_, _)
DerivedFrom(docs, i) ==
    IF i > Len(docs) THEN <<>>
    ELSE SectionDocs(_split_paper_sections(docs[i].page_content), docs[i].metadata)
         \o DerivedFrom(docs, i + 1)

_split_paper_docs(docs, size, overlap) ==
    _split_with_params(DerivedFrom(docs, 1), size, overlap)

Category(doc) == DictGetOr(doc.metadata, "category", "default")

RECURSIVE FirstSeen(_, _, _)
\* the keys of `grouped`, in insertion order
FirstSeen(docs, i, seen) ==
    IF i > Len(docs) THEN seen
    ELSE FirstSeen(docs, i + 1,
                   IF \E j \in DOMAIN seen : seen[j] = Category(docs[i])
                   THEN seen ELSE Append(seen, Category(docs[i])))

\* the body of the loop of split_documents for one category
SplitGroup(docs, category, default_cfg, category_config) ==
    LET items == SelectSeq(docs, LAMBDA d : Category(d) = category)
        cfg == DictGetOr(category_config, category, default_cfg)
        size == DictGetOr(cfg, "size", default_cfg["size"])
        overlap == DictGetOr(cfg, "overlap", default_cfg["overlap"])
    IN  IF category = "paper"
        THEN _split_paper_docs(items, size, overlap)
        ELSE _split_with_params(items, size, overlap)

RECURSIVE SplitGroups(_, _, _, _, _, _)
RECURSIVE ExtendResults(_, _, _, _, _, _, _)

\* the chunks of the category put before the results so far
PrependResults(split, docs, categories, i, results, default_cfg, category_config) ==
    IF split.raised THEN split
    ELSE SplitGroups(docs, categories, i + 1, split.value \o results,
                     default_cfg, category_config)

\* results.extend(...) with what the category's splitter returned; a
\* ValueError it raised ends the call
ExtendResults(split, docs, categories, i, results, default_cfg, category_config) ==
    IF split.raised THEN split
    ELSE SplitGroups(docs, categories, i + 1, results \o split.value,
                     default_cfg, category_config)

\* the loop of split_documents over grouped.items()
SplitGroups(docs, categories, i, results, default_cfg, category_config) ==
    IF i > Len(categories) THEN Ok(results)
    ELSE ExtendResults(SplitGroup(docs, categories[i], default_cfg, category_config),
                       docs, categories, i, results, default_cfg, category_config)

\* the documents passed to split_documents, as they are after the call
InputsAfter(docs) ==
    [i \in DOMAIN docs |->
        IF Category(docs[i]) = "paper"
        THEN Document(docs[i].page_content,
                      ParentMetadata(_split_paper_sections(docs[i].page_content),
                                     docs[i].metadata))
        ELSE docs[i]]

split_documents(docs, chunk_size, chunk_overlap, category_config) ==
    IF docs = <<>> THEN Ok(<<>>)
    ELSE SplitGroups(docs, FirstSeen(docs, 1, <<>>), 1, <<>>,
                     [size |-> chunk_size, overlap |-> chunk_overlap],
                     category_config)

----------------------------------------------------------------------------
(* config/loader.py, ingest/loaders.py: settings and the knowledge base *)

\* Settings.get(path, default) over the parsed settings.yaml
SettingsGet(settings, path, default) == DictGetOr(settings, path, default)

\* The files of the knowledge base, in the order a DirectoryLoader yields
\* them, with the first segment of each path relative to the base directory.
KbPaths == <<"note/a.txt", "paper/b.txt">>

FirstSegment == [p \in Range(KbPaths) |-> IF p = "note/a.txt" THEN "note" ELSE "paper"]

\* os.path.relpath(source_path, base_dir).split(os.sep)[0]
_infer_category(source_path) == FirstSegment[source_path]

\* number of a PDF page, as PyPDFLoader stores it in metadata["page"]
\* (written as a string, so that a missing page compares with it)
PageOf == <<"0", "1">>

\* the documents one loader yields for the files of its kind
Loaded(files, kind) ==
    LET paths == SelectSeq(KbPaths, LAMBDA p : p \in DOMAIN files /\ files[p].kind = kind)
        docsOf(p) ==
            IF kind = "pdf"
            THEN [i \in DOMAIN files[p].pages |->
                    Document(files[p].pages[i], [source |-> p, page |-> PageOf[i]])]
            ELSE <<Document(files[p].pages[1], [source |-> p])>>
    IN  Flatten([i \in DOMAIN paths |-> docsOf(paths[i])])

\* load_documents(input_dir): the loaders in their order, then the category
load_documents(files) ==
    LET docs == Loaded(files, "txt") \o Loaded(files, "md")
                  \o Loaded(files, "pdf") \o Loaded(files, "csv")
    IN  [i \in DOMAIN docs |->
            IF DictGetOr(docs[i].metadata, "source", "") # ""
            THEN Document(docs[i].page_content,
                          WithKey(docs[i].metadata, "category",
                                  _infer_category(docs[i].metadata["source"])))
            ELSE docs[i]]

TextFile(text) == [kind |-> "txt", pages |-> <<text>>]

----------------------------------------------------------------------------
(* ingest/service.py, ingest/indexer.py, config/env_check.py *)

\* the path configured as paths['chunks_file'] and the file run_ingest
\* writes when that path is a directory
ChunksPath == "data/chunks.jsonl"
NestedPath == "data/chunks.jsonl/chunks.jsonl"

NoChunksIn == [exists |-> FALSE, lines |-> <<>>]

\* os.path.isfile(path)
IsFile(path, node, inDir) ==
    \/ path = ChunksPath /\ node = "file"
    \/ path = NestedPath /\ node = "dir" /\ inDir.exists

\* os.path.isdir(path)
IsDir(path, node) == path = ChunksPath /\ node = "dir"

\* open(path).readlines() of an existing file
ReadLines(path, at, inDir) == IF path = ChunksPath THEN at ELSE inDir.lines

\* ensure_dirs(paths): os.makedirs(p, exist_ok=True) of every configured
\* path raises FileExistsError on a path that is a file; the value is what
\* paths['chunks_file'] is afterwards
ensure_dirs(paths, node) ==
    IF "chunks_file" \in DOMAIN paths
    THEN IF node = "file" THEN Raise("FileExistsError") ELSE Ok("dir")
    ELSE Ok(node)

\* the category_config run_ingest builds from the settings
CategoryConfig(settings) ==
    [c \in {"paper", "note"} |->
        [size |-> SettingsGet(settings, "chunk." \o c \o "_size",
                              SettingsGet(settings, "chunk.size", None)),
         overlap |-> SettingsGet(settings, "chunk." \o c \o "_overlap",
                                 SettingsGet(settings, "chunk.overlap", None))]]

\* the lines run_ingest writes: one JSON row per chunk
ChunkRows(chunks) ==
    [i \in DOMAIN chunks |->
        [text |-> chunks[i].page_content, metadata |-> chunks[i].metadata]]

\* build_or_update_index(docs, ...): [count, files, docs] for the collection
\* found on disk (files: the directory listing is non-empty)
build_or_update_index(docs, files, stored) ==
    IF docs = <<>> THEN [count |-> 0, files |-> files, docs |-> stored]
    ELSE LET after == IF files
                      THEN stored \o docs   \* db.add_documents(docs)
                      ELSE docs             \* Chroma.from_documents(docs)
         IN  [count |-> Len(after), files |-> TRUE, docs |-> after]

----------------------------------------------------------------------------
(* Inputs: settings.yaml, files, queries *)

Settings ==
    ("chunk.size" :> 10) @@ ("chunk.overlap" :> 2) @@ ("chunk.paper_size" :> 8)

\* the files a user drops on a category: <<category, basename, text>>
Drops ==
    {<<"note", "a.txt", <<"C", "a", "t">>>>,
     <<"paper", "b.txt", <<"A", "b", "s", "t", "r", "a", "c", "t", "\n", "a", "b">>>>}

LongA == [i \in 1..KeyPrefixLen |-> "a"]

\* chunks found on disk when the program starts: two with equal source, page
\* and first KeyPrefixLen characters, two that differ in the page only
DocLongX == Document(LongA \o <<" ", "x">>, [source |-> "note/long.txt"])
DocLongY == Document(LongA \o <<" ", "y">>, [source |-> "note/long.txt"])
DocCat == Document(<<"C", "a", "t">>, [source |-> "note/a.txt", category |-> "note"])
DocPage0 == Document(<<"d", "o", "g">>, [source |-> "paper/p.pdf", page |-> "0"])
DocPage1 == Document(<<"d", "o", "g">>, [source |-> "paper/p.pdf", page |-> "1"])

\* the chunk record files that may exist at ChunksPath at the start
ExistingChunkFiles ==
    {ChunkRows(<<DocLongX, DocCat>>) \o <<BlankLine>> \o ChunkRows(<<DocPage0, DocPage1>>)}

\* the collections that may exist in vector_store_dir at the start
ExistingStores == {<<DocLongY, DocCat, DocPage1>>}

Queries == {<<>>, <<"-", " ">>, <<"C", "a", "t">>, <<"d", "o", "g", " ", "x">>}

BasePaths == ("knowledge_base_dir" :> "data/kb") @@ ("vector_store_dir" :> "data/chroma")

\* the arguments of one get_retriever call; 0 stands for None
RetrieverArgs ==
    [chunks_file : {"", ChunksPath, NestedPath},
     top_k : 1..MaxTopK,
     top_k_vector : {0, MaxTopK},
     top_k_bm25 : {0, MaxTopK},
     top_k_final : 0..MaxTopK,
     rerank_model : {"", "cross-encoder"}]

NoArgs ==
    [chunks_file |-> "", top_k |-> 0, top_k_vector |-> 0, top_k_bm25 |-> 0,
     top_k_final |-> 0, rerank_model |-> ""]

NoTrace == Trace(Ok(<<>>), <<>>, <<>>, None, <<>>, <<>>, <<>>, <<>>)

\* what a call leaves in `last`
Call(op, args, count, t) ==
    [op |-> op, args |-> args, count |-> count,
     raised |-> t.raised, error |-> t.error, value |-> t.value,
     query |-> t.query, calls |-> t.calls, failed |-> t.failed,
     vec_docs |-> t.vec_docs,
     bm25_docs |-> t.bm25_docs, merged |-> t.merged, scores |-> t.scores]

----------------------------------------------------------------------------
(* retriever.py: get_retriever *)

\* x or y
OrElse(x, y) == IF x # 0 THEN x ELSE y

\* the outcome of get_retriever(…): the retriever, or the error raised
get_retriever(args, node, at, inDir) ==
    IF args.chunks_file # "" /\ IsFile(args.chunks_file, node, inDir)
    THEN HybridRetriever(ReadLines(args.chunks_file, at, inDir),
                         OrElse(args.top_k_vector, args.top_k),
                         OrElse(args.top_k_bm25, args.top_k),
                         OrElse(args.top_k_final, args.top_k),
                         args.rerank_model)
    ELSE Ok(VectorStoreRetriever(args.top_k))

----------------------------------------------------------------------------
(* ingest/service.py: run_ingest *)

\* run_ingest from line 32 on, with what ensure_dirs made of
\* paths['chunks_file'] and what split_documents returned or raised
WriteAndIndex(made, split, pathsMap, node, at, inDir, chromaListed, stored) ==
    LET same == [raised |-> TRUE, error |-> None, count |-> 0, chunks |-> <<>>,
                 node |-> node, at |-> at, inDir |-> inDir,
                 files |-> chromaListed, docs |-> stored]
        index == build_or_update_index(split.value, chromaListed, stored)
        written ==
            IF "chunks_file" \notin DOMAIN pathsMap
            THEN [node |-> made.value, at |-> at, inDir |-> inDir]
            ELSE IF IsDir(ChunksPath, made.value)
            THEN [node |-> made.value, at |-> at,
                  inDir |-> [exists |-> TRUE, lines |-> ChunkRows(split.value)]]
            ELSE [node |-> "file", at |-> ChunkRows(split.value), inDir |-> inDir]
    IN  IF made.raised THEN [same EXCEPT !.error = made.error]
        ELSE IF split.raised
        THEN [same EXCEPT !.error = split.error, !.node = made.value]
        ELSE [raised |-> FALSE, error |-> None, count |-> index.count,
              chunks |-> split.value, node |-> written.node, at |-> written.at,
              inDir |-> written.inDir, files |-> index.files,
              docs |-> index.docs]

\* what run_ingest(settings, paths) returns or raises, the chunks it built,
\* and the disk it leaves: node/at/inDir for paths['chunks_file'], files/docs
\* for the vector store
run_ingest(settings, pathsMap, files, node, at, inDir, chromaListed, stored) ==
    WriteAndIndex(ensure_dirs(pathsMap, node),
                  split_documents(load_documents(files),
                                  SettingsGet(settings, "chunk.size", None),
                                  SettingsGet(settings, "chunk.overlap", None),
                                  CategoryConfig(settings)),
                  pathsMap, node, at, inDir, chromaListed, stored)

----------------------------------------------------------------------------
(* The state machine *)

\* a fresh installation: an empty knowledge base, no index, no chunk file
Init ==
    /\ kb = EmptyDict
    /\ cfgPaths \in {BasePaths, BasePaths @@ ("chunks_file" :> ChunksPath)}
    /\ chunksNode = "absent"
    /\ chunksAt = <<>>
    /\ chunksIn = NoChunksIn
    /\ chromaFiles = FALSE
    /\ chromaDocs = <<>>
    /\ retriever = NoRetriever
    /\ ingests = 0
    /\ NoWindow
    /\ last = Call("start", NoArgs, 0, NoTrace)

\* an installation whose index and chunk record file were built before
InitStored ==
    /\ kb = EmptyDict
    /\ cfgPaths = BasePaths
    /\ chunksNode = "file"
    /\ chunksAt \in ExistingChunkFiles
    /\ chunksIn = NoChunksIn
    /\ chromaFiles = TRUE
    /\ chromaDocs \in ExistingStores
    /\ retriever = NoRetriever
    /\ ingests = 0
    /\ NoWindow
    /\ last = Call("start", NoArgs, 0, NoTrace)

\* file_manager.add_files_to_category: copy a file into <kb>/<category>/
AddFiles ==
    /\ \E drop \in Drops :
         kb' = WithKey(kb, drop[1] \o "/" \o drop[2], TextFile(drop[3]))
    /\ last' = Call("add_files", NoArgs, 0, NoTrace)
    /\ UNCHANGED <<chunksNode, chunksAt, chunksIn, chromaFiles, chromaDocs,
                   cfgPaths, retriever, ingests>>
    /\ UNCHANGED gui

\* ChatWindow.on_reindex: run_ingest, then the retriever is dropped unless
\* run_ingest raised
RunIngest ==
    /\ ingests < MaxIngests
    /\ ingests' = ingests + 1
    /\ \E done \in {run_ingest(Settings, cfgPaths, kb, chunksNode, chunksAt,
                               chunksIn, chromaFiles, chromaDocs)} :
           /\ chunksNode' = done.node
           /\ chunksAt' = done.at
           /\ chunksIn' = done.inDir
           /\ chromaFiles' = done.files
           /\ chromaDocs' = done.docs
           /\ last' = Call("run_ingest", NoArgs, done.count,
                           [NoTrace EXCEPT !.raised = done.raised,
                                           !.error = done.error,
                                           !.value = done.chunks])
           /\ retriever' = IF done.raised THEN retriever ELSE NoRetriever
    /\ UNCHANGED <<kb, cfgPaths>>
    /\ UNCHANGED gui

\* test_retrieval.py --reindex: _clear_path of the vector store directory
\* and of paths.get("chunks_file")
ClearPaths ==
    /\ chromaFiles' = FALSE
    /\ chromaDocs' = <<>>
    /\ IF "chunks_file" \in DOMAIN cfgPaths
       THEN chunksNode' = "absent" /\ chunksAt' = <<>> /\ chunksIn' = NoChunksIn
       ELSE UNCHANGED <<chunksNode, chunksAt, chunksIn>>
    /\ last' = Call("clear", NoArgs, 0, NoTrace)
    /\ UNCHANGED <<kb, cfgPaths, retriever, ingests>>
    /\ UNCHANGED gui

\* ChatWindow._ensure_llm_retriever: get_retriever when no retriever is held
GetRetriever ==
    /\ retriever.kind = "none"
    /\ \E given \in RetrieverArgs :
         \E built \in {get_retriever(given, chunksNode, chunksAt, chunksIn)} :
             /\ retriever' = IF built.raised THEN retriever ELSE built.value
             /\ last' = Call("get_retriever", given, 0,
                             [NoTrace EXCEPT !.raised = built.raised,
                                             !.error = built.error])
    /\ UNCHANGED <<kb, chunksNode, chunksAt, chunksIn, chromaFiles, chromaDocs,
                   cfgPaths, ingests>>
    /\ UNCHANGED gui

\* the score vectors get_scores can return to this call (none is asked for
\* when the query has no token)
ScoreChoices(r, query) ==
    IF _tokenize(query) = <<>> THEN {<<>>}
    ELSE BM25GetScores(r.bm25, _tokenize(query))

\* the outcomes of reranker.predict for this call (not called without a
\* reranker or candidates)
PredictChoices(r, merged) ==
    IF ~r.reranker \/ merged = <<>> THEN {Ok(<<>>)}
    ELSE RerankerPredict([i \in DOMAIN merged |-> merged[i].page_content])

\* retriever.get_relevant_documents(query), as chat._retrieve_docs calls it,
\* or retriever.invoke(query).
\* A query changes nothing but `last`, so a query that follows a query
\* reaches no state the first one does not: it is taken after another call.
Retrieve ==
    /\ retriever.kind # "none"
    /\ last.op # "retrieve"
    /\ \E query \in Queries :
         IF retriever.kind = "vector"
         THEN \E searched \in SimilaritySearch(chromaDocs, retriever.k) :
                last' = Call("retrieve", NoArgs, 0,
                             VectorOnlyDocuments(retriever, query, searched))
         ELSE \E searched \in SimilaritySearch(chromaDocs, retriever.top_k_vector) :
              \E scores \in ScoreChoices(retriever, query) :
              \E predicted \in PredictChoices(retriever,
                                  IF searched.raised THEN <<>>
                                  ELSE Merged(retriever, query, searched.value, scores)) :
              \E entry \in {"get_relevant_documents", "invoke"} :
                last' = Call("retrieve", NoArgs, 0,
                             IF entry = "invoke"
                             THEN invoke(retriever, query, searched, scores, predicted)
                             ELSE get_relevant_documents(retriever, query, searched,
                                                         scores, predicted))
    /\ UNCHANGED <<kb, chunksNode, chunksAt, chunksIn, chromaFiles, chromaDocs,
                   cfgPaths, retriever, ingests>>
    /\ UNCHANGED gui

Next == AddFiles \/ RunIngest \/ ClearPaths \/ GetRetriever \/ Retrieve

Spec == Init /\ [][Next]_vars

\* querying an installation that is not re-indexed meanwhile
NextStored == GetRetriever \/ Retrieve

SpecStored == InitStored /\ [][NextStored]_vars

----------------------------------------------------------------------------
(* Properties of retrieval *)

\* the dedupe keys of a list of documents
Keys(docs) == {DedupeKey(docs[i]) : i \in DOMAIN docs}

\* the first place of docs that holds the key
FirstAt(docs, key) ==
    CHOOSE i \in DOMAIN docs :
        /\ DedupeKey(docs[i]) = key
        /\ \A j \in 1..(i - 1) : DedupeKey(docs[j]) # key

\* the documents of docs that no earlier document of docs shares its key with
FirstOccurrences(docs) ==
    LET first == SelectSeq([i \in DOMAIN docs |-> i],
                           LAMBDA i : \A j \in 1..(i - 1) :
                                         DedupeKey(docs[j]) # DedupeKey(docs[i]))
    IN  [n \in DOMAIN first |-> docs[first[n]]]

\* the last call was a hybrid retrieval whose vector search returned
HybridAnswered ==
    /\ last.op = "retrieve"
    /\ retriever.kind = "hybrid"
    /\ last.failed # "VectorStoreError"

\* C1: the merged candidate list of a hybrid retrieval holds every key of the
\* vector and lexical lists exactly once, each with the document of the key's
\* first occurrence in (vector list, then lexical list), in the order of
\* these first occurrences: a chunk found by both searches keeps the vector
\* list's document and place.
C1_FirstOccurrenceWins ==
    HybridAnswered =>
        LET both == last.vec_docs \o last.bm25_docs
            merged == last.merged
        IN  /\ \A i, j \in DOMAIN merged :
                  DedupeKey(merged[i]) = DedupeKey(merged[j]) => i = j
            /\ Keys(merged) = Keys(both)
            /\ \A i \in DOMAIN merged :
                  merged[i] = both[FirstAt(both, DedupeKey(merged[i]))]
            /\ \A i, j \in DOMAIN merged :
                  i < j => FirstAt(both, DedupeKey(merged[i]))
                             < FirstAt(both, DedupeKey(merged[j]))

\* a chunk that both searches found, with different text past the key's
\* prefix: the merge holds the vector store's document only
C1_Witness ==
    /\ HybridAnswered
    /\ DocLongY \in Range(last.vec_docs)
    /\ DocLongX \in Range(last.bm25_docs)
    /\ DocLongY \in Range(last.merged)
    /\ DocLongX \notin Range(last.merged)

\* C2: without a reranker a hybrid retrieval returns the first top_k_final
\* documents of the deduplicated merge (vector hits in their order, then the
\* lexical hits not yet present in theirs): exactly top_k_final of them when
\* the merge has that many.
C2_NoRerankerMergeOrder ==
    (HybridAnswered /\ ~retriever.reranker) =>
        LET merge == FirstOccurrences(last.vec_docs \o last.bm25_docs)
            n == retriever.top_k_final
        IN  /\ ~last.raised
            /\ last.value = SubSeq(merge, 1, Min(Len(merge), n))
            /\ Len(merge) >= n => Len(last.value) = n

\* more candidates than top_k_final, and a lexical-only hit returned behind
\* a vector hit
C2_Witness ==
    /\ HybridAnswered /\ ~retriever.reranker
    /\ Len(last.merged) > retriever.top_k_final
    /\ Len(last.value) = MaxTopK
    /\ last.value[1] \in Range(last.vec_docs)
    /\ DedupeKey(last.value[MaxTopK]) \notin Keys(last.vec_docs)

\* C7: a list a hybrid retrieval returns is never longer than top_k_final.
C7_AtMostTopKFinal ==
    (last.op = "retrieve" /\ retriever.kind = "hybrid" /\ ~last.raised) =>
        Len(last.value) <= retriever.top_k_final

\* a reranked retrieval that had more candidates than it may return
C7_Witness ==
    /\ last.op = "retrieve" /\ retriever.kind = "hybrid" /\ ~last.raised
    /\ retriever.reranker
    /\ Len(last.vec_docs) > retriever.top_k_final
    /\ Len(last.bm25_docs) > retriever.top_k_final
    /\ Len(last.value) = retriever.top_k_final

\* C8: with a reranker and a non-empty merge, every document of the merge is
\* scored and the result is the top_k_final best-scored documents of the
\* merge, in descending order of score: truncation follows the reranking.
C8_RerankThenTruncate ==
    (HybridAnswered /\ retriever.reranker /\ last.merged # <<>> /\ ~last.raised) =>
        /\ last.calls[Len(last.calls)] = "predict"
        /\ Len(last.scores) = Len(last.merged)
        /\ Len(last.value) = Min(Len(last.merged), retriever.top_k_final)
        /\ \E place \in Injections(Len(last.merged), Len(last.value)) :
              /\ \A i \in DOMAIN last.value : last.value[i] = last.merged[place[i]]
              /\ \A i, j \in DOMAIN last.value :
                    i < j => last.scores[place[i]] >= last.scores[place[j]]
              /\ \A i \in DOMAIN last.value :
                    \A m \in DOMAIN last.merged :
                        (\A j \in DOMAIN last.value : place[j] # m)
                            => last.scores[m] <= last.scores[place[i]]

\* a lexical-only hit with the top score is returned and a vector hit with a
\* lower score is not
C8_Witness ==
    /\ HybridAnswered /\ retriever.reranker /\ ~last.raised
    /\ Len(last.merged) > retriever.top_k_final
    /\ DedupeKey(last.value[1]) \notin Keys(last.vec_docs)
    /\ \E i \in DOMAIN last.vec_docs : last.vec_docs[i] \notin Range(last.value)

\* C9: a query without any token gets an empty lexical ranking and no error
\* from the lexical search, so that the documents returned are vector hits.
C9_TokenlessQuery ==
    (HybridAnswered /\ _tokenize(last.query) = <<>>) =>
        /\ last.bm25_docs = <<>>
        /\ \A i \in DOMAIN last.calls : last.calls[i] # "get_scores"
        /\ last.merged = FirstOccurrences(last.vec_docs)
        /\ last.raised => last.error = "RerankerError"
        /\ \A i \in DOMAIN last.value : last.value[i] \in Range(last.vec_docs)

\* a punctuation-only query answered from the vector hits of a store, over a
\* lexical corpus that is not empty
C9_Witness ==
    /\ HybridAnswered
    /\ last.query # <<>> /\ _tokenize(last.query) = <<>>
    /\ retriever.bm25_docs # <<>>
    /\ ~last.raised /\ last.value # <<>>

\* C10: when the vector store or the reranker raises, the retrieval raises
\* that error and returns nothing; no collaborator is called twice and none
\* after the one that raised.
C10_CollaboratorErrorPropagates ==
    (last.op = "retrieve" /\ last.failed # None) =>
        /\ last.raised
        /\ last.error = last.failed
        /\ last.value = <<>>
        /\ \A i, j \in DOMAIN last.calls : last.calls[i] = last.calls[j] => i = j
        /\ last.calls[Len(last.calls)] =
              (IF last.failed = "VectorStoreError" THEN "similarity_search" ELSE "predict")

\* the reranker raised over candidates the searches had found
C10_Witness ==
    /\ last.op = "retrieve" /\ retriever.kind = "hybrid"
    /\ last.failed = "RerankerError"
    /\ last.vec_docs # <<>> /\ last.bm25_docs # <<>>
    /\ last.raised

----------------------------------------------------------------------------
(* Properties of get_retriever and run_ingest *)

\* the chunk records of the file a get_retriever call was given (none when
\* it is given no file, or a path that is no file)
RecordsGiven ==
    IF last.args.chunks_file # "" /\ IsFile(last.args.chunks_file, chunksNode, chunksIn)
    THEN _load_chunks(ReadLines(last.args.chunks_file, chunksAt, chunksIn))
    ELSE <<>>

\* the last call was the vector-only retrieval
VectorOnlyAnswered == last.op = "retrieve" /\ retriever.kind = "vector"

\* C3: after a run_ingest the vector index holds the chunks of that build,
\* each once, and the count returned is their number.
C3_IndexIsFullReplace ==
    (last.op = "run_ingest" /\ ~last.raised) =>
        /\ chromaDocs = last.value
        /\ last.count = Len(last.value)

\* C4: get_retriever returns the hybrid retriever when the chunk record file
\* it is given is a file with records, and the vector-only retriever
\* otherwise.
C4_HybridIffRecords ==
    last.op = "get_retriever" =>
        /\ ~last.raised
        /\ retriever.kind = (IF RecordsGiven # <<>> THEN "hybrid" ELSE "vector")

\* C5: over a chunk record file without records the retriever is built
\* without error, and with no vector hit either the retrieval returns the
\* empty list.
C5_EmptyCorpusEmptyResult ==
    /\ (/\ last.op = "get_retriever"
        /\ last.args.chunks_file # ""
        /\ IsFile(last.args.chunks_file, chunksNode, chunksIn)
        /\ RecordsGiven = <<>>) => ~last.raised
    /\ (/\ last.op = "retrieve"
        /\ retriever.bm25_docs = <<>>
        /\ last.vec_docs = <<>>
        /\ last.failed = None) => (~last.raised /\ last.value = <<>>)

\* what a vector-only retrieval does: one search of the store, whose answer
\* (the k nearest documents, as the store holds them) is the result
VectorOnlyPassThrough ==
    VectorOnlyAnswered =>
        /\ last.calls = <<"similarity_search">>
        /\ last.bm25_docs = <<>> /\ last.merged = <<>> /\ last.scores = <<>>
        /\ ~last.raised =>
              /\ last.value = last.vec_docs
              /\ Len(last.value) = Min(retriever.k, Len(chromaDocs))

----------------------------------------------------------------------------
(* splitters.py: calls of split_documents *)

MaxChunkSize == 3
MaxDocs == 3

\* documents as load_documents hands them over; the third has no category
NoteDoc == Document(<<"a", " ", "b", " ", "c">>,
                    [source |-> "note/a.txt", category |-> "note"])
PaperDoc ==
    Document(<<"x", "\n", "A", "b", "s", "t", "r", "a", "c", "t", "\n", "a", "b", " ", "c", "d">>,
             [source |-> "paper/b.txt", category |-> "paper"])
PlainPaperDoc == Document(<<"e", " ", "f">>, [source |-> "paper/c.txt", category |-> "paper"])
BareDoc == Document(<<"g", "\n", "\n", "h">>, [source |-> "d.txt"])

SplitDocs == {NoteDoc, PaperDoc, PlainPaperDoc, BareDoc}

RECURSIVE SeqsUpTo(_, _)
\* the sequences over S of length at most n
SeqsUpTo(S, n) ==
    IF n = 0 THEN {<<>>}
    ELSE LET shorter == SeqsUpTo(S, n - 1)
         IN  shorter \cup {Append(s, x) : s \in shorter, x \in S}

\* the category_config arguments: none, or one category's override with an
\* overlap below, equal to and above its size
CategoryConfigs ==
    {EmptyDict} \cup
    {c :> [size |-> 2, overlap |-> o] : c \in {"note", "paper"}, o \in 1..3}

\* the state before any call
InitCalls ==
    /\ kb = EmptyDict
    /\ cfgPaths = BasePaths
    /\ chunksNode = "absent"
    /\ chunksAt = <<>>
    /\ chunksIn = NoChunksIn
    /\ chromaFiles = FALSE
    /\ chromaDocs = <<>>
    /\ retriever = NoRetriever
    /\ ingests = 0
    /\ NoWindow
    /\ last = [op |-> "start"]

\* everything but `last`
disk == <<kb, chunksNode, chunksAt, chunksIn, chromaFiles, chromaDocs, cfgPaths,
          retriever, ingests, gui>>

\* one call split_documents(docs, chunk_size, chunk_overlap, category_config)
\* of a caller that has made none yet
SplitDocuments ==
    /\ last.op = "start"
    /\ \E docs \in SeqsUpTo(SplitDocs, MaxDocs) :
       \E chunk_size \in 1..MaxChunkSize :
       \E chunk_overlap \in 0..MaxChunkSize :
       \E category_config \in CategoryConfigs :
       \E done \in {split_documents(docs, chunk_size, chunk_overlap, category_config)} :
           /\ last' = [op |-> "split_documents", docs |-> docs,
                       chunk_size |-> chunk_size, chunk_overlap |-> chunk_overlap,
                       category_config |-> category_config,
                       raised |-> done.raised, error |-> done.error,
                       value |-> done.value, docs_after |-> InputsAfter(docs)]
           /\ UNCHANGED disk

NextSplit == SplitDocuments

SpecSplit == InitCalls /\ [][NextSplit]_vars

----------------------------------------------------------------------------
(* C11 *)

\* the categories of the documents of a call
Present(docs) == {Category(docs[i]) : i \in DOMAIN docs}

\* the size and overlap split_documents uses for a category
SizeFor(call, category) ==
    DictGetOr(DictGetOr(call.category_config, category, EmptyDict),
              "size", call.chunk_size)

OverlapFor(call, category) ==
    DictGetOr(DictGetOr(call.category_config, category, EmptyDict),
              "overlap", call.chunk_overlap)

\* C11: a split_documents call over documents whose global default, or the
\* override of a category present among them, has chunk_overlap >=
\* chunk_size (equality included) raises a configuration error to the caller.
C11_OverlapNotBelowSizeFails ==
    (/\ last.op = "split_documents"
     /\ last.docs # <<>>
     /\ \/ last.chunk_overlap >= last.chunk_size
        \/ \E c \in Present(last.docs) :
              /\ c \in DOMAIN last.category_config
              /\ OverlapFor(last, c) >= SizeFor(last, c)) =>
        /\ last.raised
        /\ last.error = "ValueError"

----------------------------------------------------------------------------
(* scripts/chunk_papers.py *)

MaxPdfs == 3

\* text.replace("\r\n", "\n").replace("\r", "\n")
ReplaceCarriageReturns(text) ==
    LET kept == SelectSeq([i \in DOMAIN text |-> i],
                          LAMBDA i : ~(text[i] = "\n" /\ i > 1 /\ text[i - 1] = "\r"))
    IN  [j \in DOMAIN kept |-> IF text[kept[j]] = "\r" THEN "\n" ELSE text[kept[j]]]

\* text.replace("\t", " ")
ReplaceTabs(text) == [i \in DOMAIN text |-> IF text[i] = "\t" THEN " " ELSE text[i]]

\* the vertical tab, which has no escape of its own here
VT == "\\v"

\* re.sub(r"[ \f\v]+", " ", text)
CollapseSpaces(text) ==
    LET blank(i) == text[i] \in {" ", "\f", VT}
        kept == SelectSeq([i \in DOMAIN text |-> i],
                          LAMBDA i : ~(blank(i) /\ i > 1 /\ blank(i - 1)))
    IN  [j \in DOMAIN kept |-> IF blank(kept[j]) THEN " " ELSE text[kept[j]]]

\* re.sub(r"\n{3,}", "\n\n", text)
CollapseNewlines(text) ==
    LET kept == SelectSeq([i \in DOMAIN text |-> i],
                          LAMBDA i : ~(/\ text[i] = "\n" /\ i > 2
                                       /\ text[i - 1] = "\n" /\ text[i - 2] = "\n"))
    IN  [j \in DOMAIN kept |-> text[kept[j]]]

\* the steps of _clean_text with the tabs replaced last
CleanTabsLast(text) ==
    IF text = <<>> THEN <<>>
    ELSE Strip(ReplaceTabs(CollapseNewlines(CollapseSpaces(
             ReplaceCarriageReturns(text)))))

_clean_text(text) ==
    IF text = <<>> THEN <<>>
    ELSE Strip(CollapseNewlines(CollapseSpaces(ReplaceTabs(
             ReplaceCarriageReturns(text)))))

\* the strings the alternation of ref_pattern matches, in lower case
RefWords ==
    {<<"r", "e", "f", "e", "r", "e", "n", "c", "e", "s">>,
     <<"b", "i", "b", "l", "i", "o", "g", "r", "a", "p", "h", "y">>,
     <<"a", "c", "k", "n", "o", "w", "l", "e", "d", "g", "m", "e", "n", "t", "s">>,
     <<"a", "c", "k", "n", "o", "w", "l", "e", "d", "g", "e", "m", "e", "n", "t", "s">>}

\* ref_pattern.match at position p
ref_pattern(text, p) ==
    LET q == SkipWhitespace(text, p)
        ws == {w \in RefWords :
                 WordAt(text, q, w) /\ TrailingEnd(text, q + Len(w)) # 0}
    IN  IsLineStart(text, p) /\ ws # {}

\* ref_pattern.search(text): the start of the leftmost match, 0 without one
RefSearch(text) ==
    LET starts == {p \in 1..(Len(text) + 1) : ref_pattern(text, p)}
    IN  IF starts = {} THEN 0 ELSE CHOOSE p \in starts : \A r \in starts : p <= r

RECURSIVE StripFrom(_, _)
\* the loop of _strip_references from document i, before a match was found
StripFrom(docs, i) ==
    IF i > Len(docs) THEN <<>>
    ELSE LET text == docs[i].page_content
             start == RefSearch(text)
             kept == IF start # 0 THEN Strip(SubSeq(text, 1, start - 1)) ELSE text
             new_doc == IF kept # <<>>
                        THEN <<Document(kept, docs[i].metadata)>> ELSE <<>>
         IN  IF start # 0 THEN new_doc ELSE new_doc \o StripFrom(docs, i + 1)

_strip_references(docs) == IF docs = <<>> THEN docs ELSE StripFrom(docs, 1)

_split_docs(docs, chunk_size, chunk_overlap) ==
    _split_with_params(docs, chunk_size, chunk_overlap)

\* _load_pdf(path): one document per page of a readable PDF
_load_pdf(pdf) ==
    IF ~pdf.readable THEN Raise("PdfReadError")
    ELSE Ok([i \in DOMAIN pdf.pages |->
                Document(pdf.pages[i], [source |-> pdf.path, page |-> PageOf[i]])])

\* what the except clause does with a PDF that failed to load
OnLoadErrorAlwaysSkip(skip_bad_pdf) == "continue"

OnLoadError(skip_bad_pdf) == IF skip_bad_pdf THEN "continue" ELSE "raise"

\* docs after the strip_references and clean_text steps
Prepared(docs, strip_references, clean_text) ==
    LET stripped == IF strip_references THEN _strip_references(docs) ELSE docs
    IN  IF clean_text
        THEN [i \in DOMAIN stripped |->
                Document(_clean_text(stripped[i].page_content), stripped[i].metadata)]
        ELSE stripped

\* the records written for the chunks of one paper
RecordsOf(chunks, idx, chunk_id) ==
    LET kept == SelectSeq(chunks, LAMBDA c : Strip(c.page_content) # <<>>)
    IN  [j \in DOMAIN kept |->
            [paper_id |-> idx, chunk_id |-> chunk_id + j - 1,
             page |-> DictGetOr(kept[j].metadata, "page", None),
             source |-> DictGetOr(kept[j].metadata, "source", None),
             text |-> Strip(kept[j].page_content)]]

\* what a run leaves: the return value or the error, the lines written to
\* output_path, the PDFs warned about
Run(raised, error, value, out, warned) ==
    [raised |-> raised, error |-> error, value |-> value, out |-> out,
     warned |-> warned]

RECURSIVE PapersFrom(_, _, _, _, _, _, _)
RECURSIVE WritePaper(_, _, _, _, _, _, _, _)
RECURSIVE WriteRecords(_, _, _, _, _, _, _, _)

\* as WriteRecords, if chunk_id were set to start_chunk_id for every paper
WriteRecordsRestarting(records, pdfs, i, chunk_id, total, out, warned, a) ==
    PapersFrom(pdfs, i + 1, a.start_chunk_id + Len(records), total + Len(records),
               out \o records, warned, a)

\* out.write for every record of the paper, then the next PDF
WriteRecords(records, pdfs, i, chunk_id, total, out, warned, a) ==
    PapersFrom(pdfs, i + 1, chunk_id + Len(records), total + Len(records),
               out \o records, warned, a)

\* the chunks of the paper, or the error of the splitter
WritePaper(split, pdfs, i, chunk_id, total, out, warned, a) ==
    IF split.raised THEN Run(TRUE, split.error, <<>>, out, warned)
    ELSE WriteRecords(RecordsOf(split.value, a.start_paper_id + i - 1, chunk_id),
                      pdfs, i, chunk_id, total, out, warned, a)

\* the loop over enumerate(pdf_files, start=start_paper_id) from the i-th PDF
PapersFrom(pdfs, i, chunk_id, total, out, warned, a) ==
    IF i > Len(pdfs) THEN Run(FALSE, None, <<total, chunk_id>>, out, warned)
    ELSE IF _load_pdf(pdfs[i]).raised
         THEN IF OnLoadError(a.skip_bad_pdf) = "continue"
              THEN PapersFrom(pdfs, i + 1, chunk_id, total, out,
                              Append(warned, pdfs[i].path), a)
              ELSE Run(TRUE, _load_pdf(pdfs[i]).error, <<>>, out, warned)
         ELSE WritePaper(_split_docs(Prepared(_load_pdf(pdfs[i]).value,
                                              a.strip_references, a.clean_text),
                                     a.chunk_size, a.chunk_overlap),
                         pdfs, i, chunk_id, total, out, warned, a)

\* chunk_papers(...) over the PDFs of input_dir in sorted order; `a` holds
\* the other arguments
chunk_papers(pdfs, a) ==
    IF pdfs = <<>> THEN Run(FALSE, None, <<0, a.start_chunk_id>>, <<>>, <<>>)
    ELSE PapersFrom(pdfs, 1, a.start_chunk_id, 0, <<>>, <<>>, a)

\* the options of the command line
Flags == {"--skip-bad-pdf", "--no-strip-references", "--no-clean"}

\* the arguments main() passes to chunk_papers
MainArgs(flags, chunk_size, chunk_overlap, start_paper_id, start_chunk_id) ==
    [chunk_size |-> chunk_size, chunk_overlap |-> chunk_overlap,
     start_paper_id |-> start_paper_id, start_chunk_id |-> start_chunk_id,
     skip_bad_pdf |-> "--skip-bad-pdf" \in flags,
     strip_references |-> "--no-strip-references" \notin flags,
     clean_text |-> "--no-clean" \notin flags]

\* the contents a PDF of input_dir may have
PdfContents ==
    {[readable |-> FALSE, pages |-> <<>>],
     [readable |-> TRUE, pages |-> <<<<"a", "\t", "b", " ", " ", "c">>>>],
     [readable |-> TRUE, pages |-> <<<<"d", "e">>,
         <<"f", "\n", "R", "e", "f", "e", "r", "e", "n", "c", "e", "s", "\n", "g">>>>]}

PdfNames == <<"p1.pdf", "p2.pdf", "p3.pdf", "p4.pdf">>

\* input_dir: the PDFs in the order of _sorted_pdfs
InputDirs ==
    {[i \in DOMAIN s |->
        [path |-> PdfNames[i], readable |-> s[i].readable, pages |-> s[i].pages]] :
     s \in SeqsUpTo(PdfContents, MaxPdfs)}

\* one run of the script: main() with its options
ChunkPapers ==
    /\ last.op = "start"
    /\ \E pdfs \in InputDirs :
       \E flags \in SUBSET Flags :
       \E chunk_size \in 1..MaxChunkSize :
       \E chunk_overlap \in 0..MaxChunkSize :
       \E start_chunk_id \in {1, 5} :
       \E done \in {chunk_papers(pdfs, MainArgs(flags, chunk_size, chunk_overlap,
                                                1, start_chunk_id))} :
           /\ last' = [op |-> "chunk_papers", pdfs |-> pdfs, flags |-> flags,
                       chunk_size |-> chunk_size, chunk_overlap |-> chunk_overlap,
                       start_paper_id |-> 1, start_chunk_id |-> start_chunk_id,
                       raised |-> done.raised, error |-> done.error,
                       value |-> done.value, out |-> done.out,
                       warned |-> done.warned]
           /\ UNCHANGED disk

NextPapers == ChunkPapers

SpecPapers == InitCalls /\ [][NextPapers]_vars

----------------------------------------------------------------------------
(* C12 *)

\* a run whose splitter accepts chunk_size and chunk_overlap
ChunkPapersRun ==
    /\ last.op = "chunk_papers"
    /\ last.chunk_overlap <= last.chunk_size

Unreadable(pdfs) == {i \in DOMAIN pdfs : ~pdfs[i].readable}

\* the arguments of the run in `last`
LastArgs ==
    MainArgs(last.flags, last.chunk_size, last.chunk_overlap,
             last.start_paper_id, last.start_chunk_id)

\* the texts of the records of paper idx, in the order written
TextsOfPaper(out, idx) ==
    LET own == SelectSeq(out, LAMBDA r : r.paper_id = idx)
    IN  [j \in DOMAIN own |-> own[j].text]

----------------------------------------------------------------------------
(* splitters.py: calls of _split_paper_sections *)

MaxLines == 3

\* the lines a paper text is made of: headings as written and with other
\* case and blanks around, text, blank lines, a heading word among others,
\* a heading word in the singular
SectionLines ==
    {<<"A", "b", "s", "t", "r", "a", "c", "t">>,
     <<" ", "R", "E", "S", "U", "L", "T", "S", "\t">>,
     <<"x">>,
     <<>>,
     <<" ">>,
     <<"R", "e", "s", "u", "l", "t", "s", " ", "x">>,
     <<"A", "c", "k", "n", "o", "w", "l", "e", "d", "g", "m", "e", "n", "t">>,
     <<"M", "e", "t", "h", "o", "d", "s">>}

RECURSIVE JoinLines(_)
\* "\n".join(lines)
JoinLines(lines) ==
    IF Len(lines) <= 1 THEN Flatten(lines)
    ELSE Head(lines) \o <<"\n">> \o JoinLines(Tail(lines))

\* one call _split_paper_sections(text)
SplitPaperSections ==
    /\ last.op = "start"
    /\ \E lines \in SeqsUpTo(SectionLines, MaxLines) \ {<<>>} :
       \E text \in {JoinLines(lines)} :
           /\ last' = [op |-> "_split_paper_sections", lines |-> lines,
                       text |-> text, value |-> _split_paper_sections(text)]
           /\ UNCHANGED disk

NextSections == SplitPaperSections

SpecSections == InitCalls /\ [][NextSections]_vars

----------------------------------------------------------------------------
(* C13 *)

\* the characters of a text that are not whitespace, in order
NonWhitespace(text) == SelectSeq(text, LAMBDA c : c \notin Whitespace)

\* the texts of the sections, one after the other
SectionTexts(sections) == Flatten([i \in DOMAIN sections |-> sections[i].text])

\* C13: the sections of a paper text with at least one recognized heading
\* cover the text in order without overlap, the text before the first
\* heading included: no character that is not whitespace is missing.
C13_SectionsCoverText ==
    (/\ last.op = "_split_paper_sections"
     /\ FindIter(last.text, 1) # <<>>) =>
        NonWhitespace(SectionTexts(last.value)) = NonWhitespace(last.text)

----------------------------------------------------------------------------
(* C14 *)

\* the lines of a text that the pattern takes for headings
HeadingLines(lines) == {i \in DOMAIN lines : Lower(Strip(lines[i])) \in HeadingWords}

\* the text of the lines from..to, trimmed
TrimmedLines(lines, from, to) == Strip(JoinLines(SubSeq(lines, from, to)))

\* C14: for a text with two headings, H1 and later H2, the segmenter returns
\* two sections: the first is labeled with H1 and holds the text from the
\* start of H1's line up to the start of H2's line, the second is labeled
\* with H2 and holds the text from the start of H2's line to the end, each
\* trimmed; blank lines before or after a heading line change nothing.
C14_TwoHeadingsTwoSpans ==
    (/\ last.op = "_split_paper_sections"
     /\ Cardinality(HeadingLines(last.lines)) = 2) =>
        \E h1, h2 \in HeadingLines(last.lines) :
            /\ h1 < h2
            /\ last.value =
                 <<[section |-> Strip(last.lines[h1]),
                    text |-> TrimmedLines(last.lines, h1, h2 - 1)],
                   [section |-> Strip(last.lines[h2]),
                    text |-> TrimmedLines(last.lines, h2, Len(last.lines))]>>

\* a heading, a blank line, a heading with blanks around it
C14_Witness ==
    /\ last.op = "_split_paper_sections"
    /\ Len(last.lines) = 3
    /\ HeadingLines(last.lines) = {1, 3}
    /\ last.lines[2] = <<>>
    /\ Strip(last.lines[3]) # last.lines[3]
    /\ Len(last.value) = 2

----------------------------------------------------------------------------
(* C15 *)

\* C15: for a text none of whose lines is a heading, the segmenter returns
\* exactly one section, labeled "body", whose text is the input as it is.
C15_NoHeadingOneBody ==
    (/\ last.op = "_split_paper_sections"
     /\ HeadingLines(last.lines) = {}) =>
        last.value = <<[section |-> Body, text |-> last.text]>>

\* a text without heading that begins with a blank line and has a line with
\* a heading word among other words
C15_Witness ==
    /\ last.op = "_split_paper_sections"
    /\ HeadingLines(last.lines) = {}
    /\ Len(last.lines) > 1
    /\ last.lines[1] = <<" ">>
    /\ \E i \in DOMAIN last.lines : Len(last.lines[i]) > Len(Strip(last.lines[i]))
    /\ \E i \in DOMAIN last.lines :
          \E w \in HeadingWords : Len(last.lines[i]) > Len(w)
                                   /\ WordAt(last.lines[i], 1, w)
    /\ last.value[1].text = last.text

----------------------------------------------------------------------------
(* C16 *)

\* the vocabulary with the singular forms of "acknowledgments"
VocabularyWithSingulars ==
    HeadingWords \cup {<<"a", "c", "k", "n", "o", "w", "l", "e", "d", "g", "m", "e", "n", "t">>,
                       <<"a", "c", "k", "n", "o", "w", "l", "e", "d", "g", "e", "m", "e", "n", "t">>}

\* the labels of the sections, in order
Labels(sections) == [i \in DOMAIN sections |-> sections[i].section]

\* C16: a line is a heading exactly when, trimmed and in lower case, it is a
\* word of the vocabulary, the singular "acknowledgment" and
\* "acknowledgement" included: the sections are labeled with these lines, in
\* order, and a line with a vocabulary word among others starts no section.
C16_HeadingIffVocabularyLine ==
    last.op = "_split_paper_sections" =>
        LET headings ==
                SelectSeq([i \in DOMAIN last.lines |-> i],
                          LAMBDA i : Lower(Strip(last.lines[i]))
                                       \in VocabularyWithSingulars)
        IN  Labels(last.value) =
                IF headings = <<>> THEN <<Body>>
                ELSE [j \in DOMAIN headings |-> Strip(last.lines[headings[j]])]

----------------------------------------------------------------------------
(* C17 *)

RECURSIVE LinesOf(_)
\* text.split("\n")
LinesOf(text) ==
    LET breaks == {i \in DOMAIN text : text[i] = "\n"}
    IN  IF breaks = {} THEN <<text>>
        ELSE LET i == CHOOSE b \in breaks : \A c \in breaks : b <= c
             IN  <<SubSeq(text, 1, i - 1)>> \o LinesOf(SubSeq(text, i + 1, Len(text)))

\* a occurs in b as a run of consecutive characters
IsSubstring(a, b) == \E i \in 1..(Len(b) + 1) : StartsAt(b, a, i)

\* the chunk was cut from a section of the paper document and carries the
\* document's metadata with the label of that section
CutFromSection(chunk, doc) ==
    \E s \in Range(_split_paper_sections(doc.page_content)) :
        /\ chunk.metadata = WithKey(doc.metadata, "section", s.section)
        /\ s.section = Strip(s.section)
        /\ IsSubstring(chunk.page_content, s.text)

\* the chunk was cut from the document itself and carries its metadata
CutFromDocument(chunk, doc) ==
    /\ chunk.metadata = doc.metadata
    /\ "section" \notin DOMAIN chunk.metadata
    /\ IsSubstring(chunk.page_content, doc.page_content)

\* C17: every chunk split_documents returns for a "paper" document carries
\* the document's metadata and a `section` equal to the trimmed label of the
\* section it was cut from, "body" for a document without heading; every
\* chunk of another category carries the document's metadata and no
\* `section`; the metadata of the documents passed in is as it was.
C17_PaperChunksCarrySection ==
    (last.op = "split_documents" /\ ~last.raised) =>
        /\ \A j \in DOMAIN last.value :
              \E i \in DOMAIN last.docs :
                  IF Category(last.value[j]) = "paper"
                  THEN /\ Category(last.docs[i]) = "paper"
                       /\ CutFromSection(last.value[j], last.docs[i])
                       /\ HeadingLines(LinesOf(last.docs[i].page_content)) = {}
                            => last.value[j].metadata.section = Body
                  ELSE /\ Category(last.docs[i]) # "paper"
                       /\ CutFromDocument(last.value[j], last.docs[i])
        /\ last.docs_after = last.docs

\* a call over a note and two papers, one with a heading and one without:
\* chunks labeled with the heading, chunks labeled "body", chunks without
C17_Witness ==
    /\ last.op = "split_documents"
    /\ ~last.raised
    /\ \E c \in Range(last.value) :
          /\ Category(c) = "paper"
          /\ c.metadata.section = <<"A", "b", "s", "t", "r", "a", "c", "t">>
    /\ \E c \in Range(last.value) : Category(c) = "paper" /\ c.metadata.section = Body
    /\ \E c \in Range(last.value) : "section" \notin DOMAIN c.metadata

----------------------------------------------------------------------------
(* C18 *)

\* the chunks the call in `last` returns for its i-th document alone
ChunksOfDoc(i) ==
    split_documents(<<last.docs[i]>>, last.chunk_size, last.chunk_overlap,
                    last.category_config).value

\* the documents at which a category appears for the first time
FirstAppearances(docs) ==
    SelectSeq([i \in DOMAIN docs |-> i],
              LAMBDA i : \A k \in 1..(i - 1) : Category(docs[k]) # Category(docs[i]))

\* the documents of the category of document i, in the order of the input
SameCategory(docs, i) ==
    SelectSeq([k \in DOMAIN docs |-> k],
              LAMBDA k : Category(docs[k]) = Category(docs[i]))

RECURSIVE OrderedFrom(_, _, _, _)
\* the chunks from the j-th on occur in the text one after the other, none
\* starting before the one before it
OrderedFrom(chunks, j, text, from) ==
    \/ j > Len(chunks)
    \/ \E p \in from..(Len(text) + 1) :
          /\ StartsAt(text, chunks[j].page_content, p)
          /\ OrderedFrom(chunks, j + 1, text, p)

\* C18: split_documents returns the chunks of one category together, the
\* categories in the order of their first appearance in the input, the
\* chunks of a category in the order of their documents, and the chunks of
\* a document in the order of their places in its text, however the
\* categories are interleaved in the input.
C18_CategoriesContiguousInOrder ==
    (last.op = "split_documents" /\ ~last.raised) =>
        LET firsts == FirstAppearances(last.docs)
            group(i) == LET same == SameCategory(last.docs, i)
                        IN  Flatten([k \in DOMAIN same |-> ChunksOfDoc(same[k])])
        IN  /\ last.value = Flatten([k \in DOMAIN firsts |-> group(firsts[k])])
            /\ \A i \in DOMAIN last.docs :
                  OrderedFrom(ChunksOfDoc(i), 1, last.docs[i].page_content, 1)

\* two papers with a note between them, each with chunks in the result
C18_Witness ==
    /\ last.op = "split_documents"
    /\ ~last.raised
    /\ Len(last.docs) = 3
    /\ Category(last.docs[1]) = Category(last.docs[3])
    /\ Category(last.docs[1]) # Category(last.docs[2])
    /\ last.docs[1] # last.docs[3]
    /\ \A i \in 1..3 : \E c \in Range(last.value) :
          c.metadata.source = last.docs[i].metadata.source
    /\ \E i \in 1..3 : Len(ChunksOfDoc(i)) > 1

----------------------------------------------------------------------------
(* splitters.py, chunk_papers.py: calls of the recursive chunker *)

MaxTextLen == 6

\* the characters of the texts: a letter and two of the separators
TextChars == {"a", " ", "\n"}

\* one call _split_with_params([Document(text)], size, overlap), which is
\* also what _split_docs of chunk_papers.py does
SplitWithParams ==
    /\ last.op = "start"
    /\ \E text \in SeqsUpTo(TextChars, MaxTextLen) :
       \E size \in 1..MaxChunkSize :
       \E overlap \in 0..MaxChunkSize :
       \E done \in {_split_with_params(<<Document(text, EmptyDict)>>, size, overlap)} :
           /\ last' = [op |-> "_split_with_params", text |-> text,
                       size |-> size, overlap |-> overlap,
                       raised |-> done.raised, error |-> done.error,
                       value |-> done.value]
           /\ UNCHANGED disk

NextChunker == SplitWithParams

SpecChunker == InitCalls /\ [][NextChunker]_vars

----------------------------------------------------------------------------
(* C19 *)

\* a text none of the separators can split
Atomic(text) == \A k \in DOMAIN Separators : Separators[k] # <<>>
                                              /\ ~Contains(text, Separators[k])

\* C19: for every text and every overlap and size with 0 < overlap < size,
\* every chunk of the recursive chunker is at most size characters long,
\* unless it is one token longer than size that no separator can split.
C19_ChunksWithinSize ==
    (/\ last.op = "_split_with_params"
     /\ 0 < last.overlap
     /\ last.overlap < last.size) =>
        /\ ~last.raised
        /\ \A c \in Range(last.value) :
              \/ Len(c.page_content) <= last.size
              \/ Atomic(c.page_content)

\* a text of more than size characters, cut into chunks that share
\* characters, and a word longer than size
C19_Witness ==
    /\ last.op = "_split_with_params"
    /\ 0 < last.overlap
    /\ last.overlap < last.size
    /\ Len(last.value) > 2
    /\ \E i \in DOMAIN last.text :
          /\ i + last.size <= Len(last.text)
          /\ \A k \in i..(i + last.size) : last.text[k] = "a"
    /\ \E c \in Range(last.value) : Len(c.page_content) = last.size

----------------------------------------------------------------------------
(* service.py: run_ingest over a knowledge base with one note *)

MaxNoteLen == 3

\* the characters of a note: a letter, a blank, a tab, a newline
NoteChars == {"a", " ", "\t", "\n"}

\* an installation whose knowledge base holds one note of at most
\* MaxNoteLen characters, less than chunk.size, and no index yet
InitNote ==
    /\ kb \in {"note/a.txt" :> TextFile(text) : text \in SeqsUpTo(NoteChars, MaxNoteLen)}
    /\ cfgPaths \in {BasePaths, BasePaths @@ ("chunks_file" :> ChunksPath)}
    /\ chunksNode = "absent"
    /\ chunksAt = <<>>
    /\ chunksIn = NoChunksIn
    /\ chromaFiles = FALSE
    /\ chromaDocs = <<>>
    /\ retriever = NoRetriever
    /\ ingests = 0
    /\ NoWindow
    /\ last = Call("start", NoArgs, 0, NoTrace)

NextIngest == RunIngest

SpecIngest == InitNote /\ [][NextIngest]_vars

----------------------------------------------------------------------------
(* C20 *)

\* the text of the note of the knowledge base
NoteText == kb["note/a.txt"].pages[1]

\* C20: ingesting a note that is not blank and no longer than chunk_size
\* produces exactly one chunk, whose content is the normalized text of the
\* note.
C20_OneNormalizedChunk ==
    (/\ last.op = "run_ingest"
     /\ ~last.raised
     /\ DOMAIN kb = {"note/a.txt"}
     /\ Strip(NoteText) # <<>>
     /\ Len(NoteText) <= Settings["chunk.size"]) =>
        /\ Len(last.value) = 1
        /\ last.value[1].page_content = _clean_text(NoteText)

----------------------------------------------------------------------------
(* chunk_papers.py: calls of _clean_text *)

MaxCleanLen == 4

\* a letter and the whitespace _clean_text deals with
CleanChars == {"a", " ", "\t", "\n", "\r", "\f", VT}

\* one call _clean_text(text), and one more on what it returned
CleanText ==
    /\ last.op = "start"
    /\ \E text \in SeqsUpTo(CleanChars, MaxCleanLen) :
           /\ last' = [op |-> "_clean_text", text |-> text,
                       value |-> _clean_text(text),
                       again |-> _clean_text(_clean_text(text))]
           /\ UNCHANGED disk

NextClean == CleanText

SpecClean == InitCalls /\ [][NextClean]_vars

----------------------------------------------------------------------------
(* C21 *)

\* C21: _clean_text returns a text for every text, the empty one and those
\* that mix CR, CR LF, tabs, form feeds, vertical tabs, blanks and newlines
\* included, and cleaning its result again gives the same text.
C21_CleanTextIdempotent ==
    last.op = "_clean_text" =>
        /\ last.value \in Seq(CleanChars)
        /\ last.again = last.value

\* a text with a carriage return and a tab or form feed that cleaning changes
\* into a text that is not empty
C21_Witness ==
    /\ last.op = "_clean_text"
    /\ "\r" \in Range(last.text)
    /\ Range(last.text) \cap {"\t", "\f", VT} # {}
    /\ last.value # <<>>
    /\ last.value # last.text
    /\ "\n" \in Range(last.value)

----------------------------------------------------------------------------
(* retriever.py: calls of HybridRetriever._bm25_search *)

\* queries with tokens of one, two and three corpus chunks, and of none
LexicalQueries ==
    Queries \cup {<<"d", "o", "g">>, <<"c", "a", "t", " ", "d", "o", "g", " ", "x">>, <<"z", "e", "b", "r", "a">>}

\* one call _bm25_search(query) on a retriever built over a chunk record
\* file, with the scores bm25.get_scores returned to it
LexicalSearch ==
    /\ last.op = "start"
    /\ \E lines \in ExistingChunkFiles :
       \E top_k_bm25 \in 0..MaxTopK :
       \E query \in LexicalQueries :
       \E built \in {HybridRetriever(lines, 1, top_k_bm25, 1, "")} :
       \E scores \in ScoreChoices(built.value, query) :
           /\ last' = [op |-> "_bm25_search", query |-> query,
                       top_k_bm25 |-> top_k_bm25,
                       corpus |-> built.value.bm25_docs,
                       tokenized |-> built.value.bm25,
                       bm25_scores |-> scores,
                       value |-> _bm25_search(built.value, query, scores)]
           /\ UNCHANGED disk

NextLexical == LexicalSearch

SpecLexical == InitCalls /\ [][NextLexical]_vars

----------------------------------------------------------------------------
(* C22 *)

\* a lexical search that asked bm25 for scores
Scored == last.op = "_bm25_search" /\ _tokenize(last.query) # <<>>

\* chunk a ranks before chunk b: a higher score, or the same score and an
\* earlier place in the corpus
RanksBefore(a, b) ==
    \/ last.bm25_scores[a] > last.bm25_scores[b]
    \/ last.bm25_scores[a] = last.bm25_scores[b] /\ a < b

\* C22: the lexical search returns the chunks in descending order of score,
\* chunks of equal score in the order of the corpus, cut after top_k_bm25:
\* the i-th chunk returned is the one that exactly i-1 chunks rank before.
C22_ScoreThenCorpusOrder ==
    Scored =>
        /\ Len(last.value) = Min(last.top_k_bm25, Len(last.corpus))
        /\ \A i \in DOMAIN last.value :
              \E j \in DOMAIN last.corpus :
                  /\ Cardinality({a \in DOMAIN last.corpus : RanksBefore(a, j)}) = i - 1
                  /\ last.value[i] = last.corpus[j]

\* two chunks with the same positive score, of which the cut keeps the one
\* that comes first in the corpus
C22_Witness ==
    /\ Scored
    /\ \E a, b \in DOMAIN last.corpus :
          /\ a < b
          /\ last.bm25_scores[a] = last.bm25_scores[b]
          /\ last.bm25_scores[a] > 0
          /\ last.corpus[a] \in Range(last.value)
          /\ last.corpus[b] \notin Range(last.value)

----------------------------------------------------------------------------
(* C24 *)

\* the corpus chunks that hold a token of the query
SharingToken ==
    {j \in DOMAIN last.corpus :
        Range(last.tokenized[j]) \cap Range(_tokenize(last.query)) # {}}

\* C24: every chunk the lexical search returns for a query with a token has
\* a positive score and holds a token of the query; when no chunk of the
\* corpus holds a token of the query, nothing is returned.
C24_OnlyPositiveScores ==
    Scored =>
        /\ \A i \in DOMAIN last.value :
              \E j \in SharingToken :
                  /\ last.value[i] = last.corpus[j]
                  /\ last.bm25_scores[j] > 0
        /\ SharingToken = {} => last.value = <<>>

----------------------------------------------------------------------------
(* retriever.py: calls of _tokenize *)

MaxQueryLen == 3

\* a letter that is not ASCII (U+00E9), written as its escape
EAcute == "\\u00e9"

\* letters in both cases, a digit, separators, a letter that is not ASCII
QueryChars == {"a", "B", "1", " ", "-", EAcute}

\* one call _tokenize(text)
Tokenize ==
    /\ last.op = "start"
    /\ \E text \in SeqsUpTo(QueryChars, MaxQueryLen) :
           /\ last' = [op |-> "_tokenize", text |-> text, value |-> _tokenize(text)]
           /\ UNCHANGED disk

NextTokenize == Tokenize

SpecTokenize == InitCalls /\ [][NextTokenize]_vars

----------------------------------------------------------------------------
(* C23 *)

\* str.isalnum() on one character of QueryChars
IsAlnum(c) == c \in AsciiAlnum \cup {EAcute}

\* the places where a maximal run of alphanumeric characters starts
AlnumRunStarts(text) ==
    {i \in DOMAIN text : IsAlnum(text[i]) /\ (i = 1 \/ ~IsAlnum(text[i - 1]))}

\* C23: the tokens of a text are its maximal runs of alphanumeric
\* characters, letters and digits outside ASCII included, in lower case and
\* in order: one token per run, and every alphanumeric character in exactly
\* one token.
C23_TokensAreAlnumRuns ==
    last.op = "_tokenize" =>
        /\ Len(last.value) = Cardinality(AlnumRunStarts(last.text))
        /\ Flatten(last.value) = Lower(SelectSeq(last.text, IsAlnum))
        /\ \A i \in DOMAIN last.value : last.value[i] # <<>>

----------------------------------------------------------------------------
(* C25 *)

\* the arguments callers pass to get_retriever: chunks_file from the paths
FromPaths(args) == [args EXCEPT !.chunks_file = cfgPaths["chunks_file"]]

\* C25: when the paths configure chunks_file, a run_ingest that has just
\* completed over a knowledge base that is not empty has written the chunk
\* records to paths['chunks_file'] itself, which is then a file, and a
\* get_retriever call given that path builds the hybrid retriever.
C25_IngestFeedsHybrid ==
    (/\ "chunks_file" \in DOMAIN cfgPaths
     /\ last.op = "run_ingest"
     /\ ~last.raised
     /\ last.value # <<>>) =>
        /\ IsFile(cfgPaths["chunks_file"], chunksNode, chunksIn)
        /\ ReadLines(cfgPaths["chunks_file"], chunksAt, chunksIn) = ChunkRows(last.value)
        /\ \A args \in RetrieverArgs :
              LET built == get_retriever(FromPaths(args), chunksNode, chunksAt, chunksIn)
              IN  ~built.raised /\ built.value.kind = "hybrid"

----------------------------------------------------------------------------
(* ui/window.py: the chat window, its history and its worker threads *)

HistoryLimit == 50
TitleLen == 24
MaxSends == 1
MaxReindex == 1

RoleUser == "\\u4f60"
RoleAssistant == "\\u52a9\\u624b"
RoleSystem == "\\u7cfb\\u7edf"
Untitled == "\\u5bf9\\u8bdd "

Message(role, text) == [role |-> role, text |-> text]

\* the record _save_current_session stores for the conversation; the time
\* stamp, which only the label shows, is left out
Session(cur) == [title |-> Take(cur[1].text, TitleLen), messages |-> cur]

\* the row _update_history_list shows for sessions[idx]
Label(session, idx) ==
    IF session.title # <<>> THEN session.title ELSE <<Untitled, ToString(idx + 1)>>

_update_history_list(sessions) ==
    [i \in 1..Len(sessions) |-> Label(sessions[i], i - 1)]

\* _append_chat(role, text): the message joins the conversation unless a
\* stored session is being displayed, and is shown in the chat view
_append_chat(w, role, text) ==
    [w EXCEPT !.current_session = Append(@, Message(role, text)),
              !.session_dirty = IF w.loaded_from_history THEN TRUE ELSE @,
              !.chat_view = Append(@, Message(role, text))]

\* sessions after lines 630-642: the entry replaces the loaded session or
\* is inserted at the head
WithEntry(w, sessions, entry) ==
    IF /\ w.loaded_from_history
       /\ w.loaded_session_index # <<>>
       /\ 0 <= w.loaded_session_index[1]
       /\ w.loaded_session_index[1] < Len(sessions)
    THEN [sessions EXCEPT ![w.loaded_session_index[1] + 1] = entry]
    ELSE <<entry>> \o sessions

\* _save_current_session(): the window and the history file it leaves
_save_current_session(w, sessions) ==
    IF \/ w.current_session = <<>>
       \/ (w.loaded_from_history /\ w.loaded_session_index # <<>> /\ ~w.session_dirty)
    THEN [ui |-> w, history |-> sessions]
    ELSE [ui |-> [w EXCEPT !.history_list =
                      _update_history_list(
                          Take(WithEntry(w, sessions, Session(w.current_session)),
                               HistoryLimit))],
          history |-> Take(WithEntry(w, sessions, Session(w.current_session)),
                           HistoryLimit)]

\* on_new_chat(), given what _save_current_session left
StartNew(saved) ==
    [ui |-> [saved.ui EXCEPT !.current_session = <<>>, !.chat_view = <<>>,
                             !.loaded_from_history = FALSE,
                             !.session_dirty = FALSE,
                             !.loaded_session_index = <<>>],
     history |-> saved.history]

on_new_chat(w, sessions) == StartNew(_save_current_session(w, sessions))

\* on_load_session(item) for the item at row idx, given what
\* _save_current_session left: sessions[idx] of the file as it is now
LoadFrom(saved, idx) ==
    IF idx < 0 \/ idx >= Len(saved.history) THEN saved
    ELSE [ui |-> [saved.ui EXCEPT
                     !.current_session = saved.history[idx + 1].messages,
                     !.chat_view = [i \in DOMAIN saved.history[idx + 1].messages |->
                                      Message(saved.history[idx + 1].messages[i].role,
                                              saved.history[idx + 1].messages[i].text)],
                     !.loaded_from_history = TRUE,
                     !.session_dirty = FALSE,
                     !.loaded_session_index = <<idx>>],
          history |-> saved.history]

on_load_session(w, sessions, idx) == LoadFrom(_save_current_session(w, sessions), idx)

\* the arguments _ensure_llm_retriever passes to get_retriever
WindowArgs ==
    [chunks_file |-> DictGetOr(cfgPaths, "chunks_file", ""), top_k |-> 1,
     top_k_vector |-> 0, top_k_bm25 |-> 0, top_k_final |-> 0, rerank_model |-> ""]

\* chat._retrieve_docs: a retriever that is None has neither
\* get_relevant_documents nor invoke
answer_question(question, r) ==
    IF r.kind = "none" THEN Raise("AttributeError") ELSE Ok(<<"o", "k">>)

\* what the user types into the entry
Typed == {<<" ">>, <<"h", "i", " ">>}

\* a stored session whose only message has n characters
StoredSession(n) == Session(<<Message(RoleUser, [i \in 1..n |-> "x"])>>)

\* the history files found at the start: none, two sessions, a full one
StoredHistories ==
    {[i \in 1..n |-> StoredSession(i)] : n \in {0, 2, HistoryLimit}}

\* the rows the user clicks in a list of n rows
Rows(n) == {r \in {0, 1, n - 1} : 0 <= r /\ r < n}

Started(kind) == Cardinality({t \in DOMAIN workers : workers[t].kind = kind})

InitWindow ==
    /\ kb = "note/a.txt" :> TextFile(<<"C", "a", "t">>)
    /\ cfgPaths = BasePaths @@ ("chunks_file" :> ChunksPath)
    /\ chunksNode = "absent"
    /\ chunksAt = <<>>
    /\ chunksIn = NoChunksIn
    /\ chromaFiles = FALSE
    /\ chromaDocs = <<>>
    /\ retriever = NoRetriever
    /\ ingests = 0
    /\ history \in StoredHistories
    /\ ui = [NewWindow EXCEPT !.history_list = _update_history_list(history)]
    /\ workers = <<>>
    /\ signals = <<>>
    /\ last = [op |-> "start"]

files == <<kb, chunksNode, chunksAt, chunksIn, chromaFiles, chromaDocs, cfgPaths, ingests>>

\* on_send: the question joins the conversation and a worker is started
OnSend ==
    /\ ui.stage = "open"
    /\ Started("on_send") < MaxSends
    /\ \E typed \in Typed :
          IF Strip(typed) = <<>>
          THEN /\ last' = [op |-> "on_send", question |-> <<>>]
               /\ UNCHANGED <<ui, workers>>
          ELSE /\ ui' = _append_chat(ui, RoleUser, Strip(typed))
               /\ workers' = Append(workers, [kind |-> "on_send", pc |-> "ensure",
                                              question |-> Strip(typed)])
               /\ last' = [op |-> "on_send", question |-> Strip(typed)]
    /\ UNCHANGED <<files, retriever, history, signals>>

\* on_send worker, _ensure_llm_retriever line 476: the test of self.retriever
TestRetriever(t) ==
    /\ workers[t].kind = "on_send"
    /\ workers[t].pc = "ensure"
    /\ workers' = [workers EXCEPT ![t].pc =
                      IF retriever.kind = "none" THEN "build" ELSE "answer"]
    /\ last' = [op |-> "_ensure_llm_retriever", thread |-> t]
    /\ UNCHANGED <<files, retriever, ui, history, signals>>

\* on_send worker, lines 477-488: self.retriever = get_retriever(...)
BuildRetriever(t) ==
    /\ workers[t].kind = "on_send"
    /\ workers[t].pc = "build"
    /\ \E built \in {get_retriever(WindowArgs, chunksNode, chunksAt, chunksIn)} :
          IF built.raised
          THEN /\ signals' = Append(signals, Message(RoleSystem, <<built.error>>))
               /\ workers' = [workers EXCEPT ![t].pc = "done"]
               /\ UNCHANGED retriever
          ELSE /\ retriever' = built.value
               /\ workers' = [workers EXCEPT ![t].pc = "answer"]
               /\ UNCHANGED signals
    /\ last' = [op |-> "get_retriever", thread |-> t]
    /\ UNCHANGED <<files, ui, history>>

\* on_send worker, lines 518-534: answer_question with self.retriever as it
\* is now, then the answer or the error is emitted
Answer(t) ==
    /\ workers[t].kind = "on_send"
    /\ workers[t].pc = "answer"
    /\ \E answer \in {answer_question(workers[t].question, retriever)} :
          /\ signals' = Append(signals,
                               IF answer.raised
                               THEN Message(RoleSystem, <<answer.error>>)
                               ELSE Message(RoleAssistant, answer.value))
          /\ last' = [op |-> "answer_question", thread |-> t,
                      retriever |-> retriever, raised |-> answer.raised]
    /\ workers' = [workers EXCEPT ![t].pc = "done"]
    /\ UNCHANGED <<files, retriever, ui, history>>

\* on_reindex: a worker is started
OnReindex ==
    /\ ui.stage = "open"
    /\ Started("on_reindex") < MaxReindex
    /\ workers' = Append(workers, [kind |-> "on_reindex", pc |-> "ingest",
                                   question |-> <<>>])
    /\ last' = [op |-> "on_reindex"]
    /\ UNCHANGED <<files, retriever, ui, history, signals>>

\* on_reindex worker, line 556: run_ingest(self.settings, self.paths)
Ingest(t) ==
    /\ workers[t].kind = "on_reindex"
    /\ workers[t].pc = "ingest"
    /\ ingests' = ingests + 1
    /\ \E done \in {run_ingest(Settings, cfgPaths, kb, chunksNode, chunksAt,
                               chunksIn, chromaFiles, chromaDocs)} :
           /\ chunksNode' = done.node
           /\ chunksAt' = done.at
           /\ chunksIn' = done.inDir
           /\ chromaFiles' = done.files
           /\ chromaDocs' = done.docs
           /\ IF done.raised
              THEN /\ signals' = Append(signals, Message(RoleSystem, <<done.error>>))
                   /\ workers' = [workers EXCEPT ![t].pc = "done"]
              ELSE /\ workers' = [workers EXCEPT ![t].pc = "reset"]
                   /\ UNCHANGED signals
    /\ last' = [op |-> "run_ingest", thread |-> t]
    /\ UNCHANGED <<kb, cfgPaths, retriever, ui, history>>

\* on_reindex worker, line 557: self.retriever = None
ResetRetriever(t) ==
    /\ workers[t].kind = "on_reindex"
    /\ workers[t].pc = "reset"
    /\ retriever' = NoRetriever
    /\ workers' = [workers EXCEPT ![t].pc = "done"]
    /\ last' = [op |-> "reset", thread |-> t]
    /\ UNCHANGED <<files, ui, history, signals>>

\* the window's thread delivers append_chat to _append_chat
AppendChat ==
    /\ ui.stage = "open"
    /\ signals # <<>>
    /\ ui' = _append_chat(ui, Head(signals).role, Head(signals).text)
    /\ signals' = Tail(signals)
    /\ last' = [op |-> "_append_chat"]
    /\ UNCHANGED <<files, retriever, history, workers>>

\* what a handler that saves leaves
Saved(op, row, done) ==
    /\ ui' = done.ui
    /\ history' = done.history
    /\ last' = [op |-> op, row |-> row, sessions |-> history]

OnNewChat ==
    /\ ui.stage = "open"
    /\ Saved("on_new_chat", 0, on_new_chat(ui, history))
    /\ UNCHANGED <<files, retriever, workers, signals>>

\* a click on the row idx of the history list
OnLoadSession ==
    /\ ui.stage = "open"
    /\ \E idx \in Rows(Len(ui.history_list)) :
          Saved("on_load_session", idx, on_load_session(ui, history, idx))
    /\ UNCHANGED <<files, retriever, workers, signals>>

\* closeEvent: the conversation is saved and the window closes
CloseEvent ==
    /\ ui.stage = "open"
    /\ \E done \in {_save_current_session(ui, history)} :
          Saved("closeEvent", 0, [done EXCEPT !.ui.stage = "closed"])
    /\ UNCHANGED <<files, retriever, workers, signals>>

\* launch_ui: aboutToQuit is connected to _save_current_session
AboutToQuit ==
    /\ ui.stage = "closed"
    /\ \E done \in {_save_current_session(ui, history)} :
          Saved("aboutToQuit", 0, [done EXCEPT !.ui.stage = "quit"])
    /\ UNCHANGED <<files, retriever, workers, signals>>

Worker ==
    /\ ui.stage # "quit"
    /\ \E t \in DOMAIN workers :
          \/ TestRetriever(t)
          \/ BuildRetriever(t)
          \/ Answer(t)
          \/ Ingest(t)
          \/ ResetRetriever(t)

NextWindow ==
    \/ OnSend
    \/ OnReindex
    \/ Worker
    \/ AppendChat
    \/ OnNewChat
    \/ OnLoadSession
    \/ CloseEvent
    \/ AboutToQuit

SpecWindow == InitWindow /\ [][NextWindow]_vars

----------------------------------------------------------------------------
(* C26 *)

\* C26: whatever the interleaving of an on_send worker with an on_reindex
\* worker, the retriever the on_send worker passes to answer_question is
\* not None.
C26_RetrieverNeverNone ==
    last.op = "answer_question" => last.retriever.kind # "none"

----------------------------------------------------------------------------
(* C27 *)

\* C27: after a click on row i of the history list, the conversation and
\* the chat view hold the messages of the session that row i showed when it
\* was clicked, also when the click saved the current conversation first.
C27_LoadsClickedSession ==
    last.op = "on_load_session" =>
        /\ ui.current_session = last.sessions[last.row + 1].messages
        /\ ui.chat_view = last.sessions[last.row + 1].messages

----------------------------------------------------------------------------
(* C28 *)

\* C28: a save that follows a save of the same conversation with no message
\* in between stores nothing again: the aboutToQuit handler, which runs
\* after closeEvent, leaves the history file as closeEvent left it; and the
\* file never holds more than 50 sessions.
C28_SavedOnce ==
    /\ last.op = "aboutToQuit" => history = last.sessions
    /\ Len(history) <= HistoryLimit

----------------------------------------------------------------------------
(* scripts/collect_papers.py: collect_papers *)

MaxPapers == 3

RECURSIVE CollapseRuns(_, _)
\* re.sub(r"\s+", " ", text)
CollapseRuns(text, i) ==
    IF i > Len(text) THEN <<>>
    ELSE IF text[i] \in Whitespace
    THEN (IF i > 1 /\ text[i - 1] \in Whitespace THEN <<>> ELSE <<" ">>)
         \o CollapseRuns(text, i + 1)
    ELSE <<text[i]>> \o CollapseRuns(text, i + 1)

_normalize_title(title) == Strip(CollapseRuns(Lower(title), 1))

_dedupe_key(item) ==
    IF item.doi # <<>> THEN <<"doi:">> \o Lower(item.doi)
    ELSE <<"title:">> \o _normalize_title(item.title)

RECURSIVE TermsFrom(_, _, _)
\* re.split(r"[,\s]+", text) without the empty pieces
TermsFrom(text, i, cur) ==
    IF i > Len(text) THEN (IF cur = <<>> THEN <<>> ELSE <<cur>>)
    ELSE IF text[i] \in Whitespace \cup {","}
    THEN (IF cur = <<>> THEN <<>> ELSE <<cur>>) \o TermsFrom(text, i + 1, <<>>)
    ELSE TermsFrom(text, i + 1, Append(cur, text[i]))

SplitQuery(parts) == [i \in DOMAIN parts |-> Lower(parts[i])]

_split_query_terms(query) == SplitQuery(TermsFrom(Strip(query), 1, <<>>))

RECURSIVE CountFrom(_, _, _)
\* text.count(term) from place i on: occurrences that do not overlap
CountFrom(text, term, i) ==
    IF i + Len(term) - 1 > Len(text) THEN 0
    ELSE IF StartsAt(text, term, i) THEN 1 + CountFrom(text, term, i + Len(term))
    ELSE CountFrom(text, term, i + 1)

RECURSIVE AbstractHits(_, _, _)
AbstractHits(summary_lower, terms, k) ==
    IF k > Len(terms) THEN 0
    ELSE CountFrom(summary_lower, terms[k], 1) + AbstractHits(summary_lower, terms, k + 1)

MatchesTerms(title, summary, terms, min_abstract_hits, require_title_match) ==
    IF terms = <<>> THEN TRUE
    ELSE IF require_title_match
            /\ ~\E k \in DOMAIN terms : IsSubstring(terms[k], Lower(title))
    THEN FALSE
    ELSE IF min_abstract_hits <= 0 THEN TRUE
    ELSE AbstractHits(Lower(summary), terms, 1) >= min_abstract_hits

_matches_title_then_abstract(title, summary, query, min_abstract_hits, require_title_match) ==
    MatchesTerms(title, summary, _split_query_terms(query), min_abstract_hits,
                 require_title_match)

\* seen.add(key)
Seen(st, item) == [st EXCEPT !.seen = @ \cup {_dedupe_key(item)}]

RECURSIVE PassItems(_, _, _, _, _, _, _)
\* the loop of run_pass over the items of one source, from item i on; the
\* output directory is new, so no destination file exists yet
PassItems(items, i, source_count, st, a, title_required, min_hits) ==
    IF i > Len(items) THEN st
    ELSE IF Len(st.collected) >= a.max_papers THEN [st EXCEPT !.returned = TRUE]
    ELSE IF a.per_source_limit # <<>> /\ source_count >= a.per_source_limit[1] THEN st
    ELSE IF a.require_pdf /\ ~items[i].pdf_url
    THEN PassItems(items, i + 1, source_count, st, a, title_required, min_hits)
    ELSE IF _dedupe_key(items[i]) \in st.seen
    THEN PassItems(items, i + 1, source_count, st, a, title_required, min_hits)
    ELSE IF /\ a.use_query_match_filter
            /\ ~_matches_title_then_abstract(items[i].title, items[i].summary,
                                             a.query, min_hits, title_required)
    THEN PassItems(items, i + 1, source_count, Seen(st, items[i]), a,
                   title_required, min_hits)
    ELSE IF items[i].pdf_url /\ items[i].id \in a.failing
    THEN [Seen(st, items[i]) EXCEPT !.raised = TRUE]
    ELSE PassItems(items, i + 1, source_count + 1,
                   [Seen(st, items[i]) EXCEPT !.collected = Append(@, items[i])],
                   a, title_required, min_hits)

RECURSIVE PassSources(_, _, _, _, _, _)
PassSources(sources, k, st, a, title_required, min_hits) ==
    IF k > Len(sources) \/ st.returned \/ st.raised THEN st
    ELSE PassSources(sources, k + 1,
                     PassItems(sources[k], 1, 0, st, a, title_required, min_hits),
                     a, title_required, min_hits)

\* run_pass(pass_name, title_required, min_hits) over the iterators that
\* build_iterators makes anew
run_pass(sources, st, a, title_required, min_hits) ==
    PassSources(sources, 1, [st EXCEPT !.returned = FALSE], a, title_required, min_hits)

NothingCollected == [collected |-> <<>>, seen |-> {}, returned |-> FALSE, raised |-> FALSE]

\* the primary pass of collect_papers
PrimaryPass(sources, a) ==
    run_pass(sources, NothingCollected, a, a.require_title_match, a.match_query_min_hits)

\* collect_papers from line 424 on, given the outcome of the primary pass
collect_papers(sources, a, primary) ==
    IF primary.raised THEN primary
    ELSE IF /\ Len(primary.collected) < a.max_papers
            /\ a.use_query_match_filter
            /\ a.fallback_abstract_only
    THEN run_pass(sources, primary, a, FALSE, a.fallback_min_hits)
    ELSE primary

Paper(id, title, summary, pdf_url) ==
    [id |-> id, doi |-> <<>>, title |-> title, summary |-> summary, pdf_url |-> pdf_url]

PaperAbx == Paper("p1", <<"A", "b", " ", "x">>, <<"a", "b", " ", "a", "b">>, TRUE)
PaperCd == Paper("p2", <<"C", "d">>, <<"a", "n", " ", "a", "b">>, TRUE)
PaperCde == Paper("p3", <<"C", "d", " ", "e">>, <<"z", "z">>, TRUE)
PaperAbX2 == Paper("p4", <<"a", "b", " ", " ", "X">>, <<"a", "b", " ", "a", "b">>, TRUE)
PaperNoPdf == Paper("p5", <<"A", "b">>, <<"a", "b">>, FALSE)

\* what the sources return, the same to every pass
SourceLists ==
    {<<first, second>> :
        first \in {<<PaperAbx, PaperCd, PaperNoPdf>>, <<PaperCd, PaperAbx>>, <<PaperCd>>},
        second \in {<<PaperAbX2, PaperCde>>, <<>>}}

CollectArgs ==
    [query : {<<"a", "b">>, <<" ", "A", "b", ",", " ", "c", "d", " ">>},
     max_papers : 1..MaxPapers,
     per_source_limit : {<<>>, <<1>>},
     require_pdf : BOOLEAN,
     use_query_match_filter : BOOLEAN,
     require_title_match : BOOLEAN,
     match_query_min_hits : {0, 2},
     fallback_abstract_only : BOOLEAN,
     fallback_min_hits : {0, 1},
     failing : {{}, {"p1"}}]

CollectPapers ==
    /\ last.op = "start"
    /\ \E sources \in SourceLists, a \in CollectArgs :
          \E primary \in {PrimaryPass(sources, a)} :
             \E final \in {collect_papers(sources, a, primary)} :
                last' = [op |-> "collect_papers", sources |-> sources, args |-> a,
                         primary |-> primary.collected, rejected |-> primary.seen,
                         raised |-> final.raised, value |-> final.collected]
    /\ UNCHANGED disk

NextCollect == CollectPapers

SpecCollect == InitCalls /\ [][NextCollect]_vars

----------------------------------------------------------------------------
(* C29 *)

\* the items of the sources that the relaxed criterion accepts: a PDF when
\* one is required, no title match, at least fallback_min_hits abstract hits
Relaxed(item) ==
    /\ last.args.require_pdf => item.pdf_url
    /\ _matches_title_then_abstract(item.title, item.summary, last.args.query,
                                    last.args.fallback_min_hits, FALSE)

KeysOf(items) == {_dedupe_key(items[i]) : i \in DOMAIN items}

\* C29: with the query filter and the fallback enabled, no per-source limit
\* and no failed download, a primary pass that ends with fewer than
\* max_papers items is followed by a fallback pass that collects every item
\* not collected yet that the relaxed criterion accepts, those the primary
\* pass rejected included, until max_papers items are collected.
C29_FallbackCollectsRejected ==
    (/\ last.op = "collect_papers"
     /\ ~last.raised
     /\ last.args.use_query_match_filter
     /\ last.args.fallback_abstract_only
     /\ last.args.per_source_limit = <<>>
     /\ Len(last.primary) < last.args.max_papers) =>
        \/ Len(last.value) = last.args.max_papers
        \/ \A k \in DOMAIN last.sources : \A i \in DOMAIN last.sources[k] :
              Relaxed(last.sources[k][i]) =>
                  _dedupe_key(last.sources[k][i]) \in KeysOf(last.value)

----------------------------------------------------------------------------
(* C30 *)

\* C30: the chunk_id values of the records chunk_papers writes are
\* start_chunk_id, start_chunk_id + 1, ... in write order, with no gap and no
\* repeat across papers and skipped PDFs, and a run that returns gives
\* (total_chunks, next_chunk_id) with total_chunks records written and
\* next_chunk_id = start_chunk_id + total_chunks.
C30_ChunkIdsConsecutive ==
    last.op = "chunk_papers" =>
        /\ \A j \in DOMAIN last.out :
              last.out[j].chunk_id = last.start_chunk_id + j - 1
        /\ ~last.raised =>
              /\ last.value[1] = Len(last.out)
              /\ last.value[2] = last.start_chunk_id + last.value[1]

\* a run that starts at chunk_id 5, skips an unreadable PDF and writes the
\* records of the papers before and after it
C30_Witness ==
    /\ last.op = "chunk_papers"
    /\ ~last.raised
    /\ last.start_chunk_id = 5
    /\ last.warned = <<"p2.pdf">>
    /\ \E j \in DOMAIN last.out : last.out[j].paper_id = 1
    /\ \E j \in DOMAIN last.out : last.out[j].paper_id = 3
    /\ Len(last.out) > 2

====
